---- MODULE Spec2Model ----
(***************************************************************************)
(* Session monitor (src/session_monitor.py): the persisted notification    *)
(* state (load_state / save_state), the detector loop of run_once and the  *)
(* dispatch of Start / End notifications, as a state machine.  One         *)
(* behaviour is a series of run_once invocations of one deployment that    *)
(* share the file session_state.json.                                      *)
(***************************************************************************)
EXTENDS Integers, Sequences, FiniteSets, TLC

\* ------------------------------------------------------------------ bounds
MaxRuns == 2        \* run_once invocations in one behaviour
MaxActs == 2        \* activities returned by one GetActivities call
BufferChunks == 4   \* chunks the file object buffers before it writes them out
MaxShots == 2       \* screenshots in one GetScreenshots answer
MaxTicks == 4       \* scheduled run_once invocations (SpecClock)
PollInterval == 300 \* seconds between two scheduled invocations (SpecClock)
MaxSeconds == 7300  \* the latest end time of a session (SpecDuration)
MaxApps == 2        \* applications of one screenshot (SpecOverlay)
MaxRecords == 3     \* records of one employee (SpecTimelapse)
MaxDaySessions == 2 \* activities of a kind in one day (SpecSummary)

\* ------------------------------------------------------- program constants
\* EMPLOYMENTS: employmentId -> display name, iterated in insertion order
EMPLOYMENTS == <<433687, 433688>>

\* to_ts = int(now_utc.timestamp()) + 600
Cushion == 600

\* The seconds of a UTC day
DaySeconds == 86400

\* PKT = dt.timezone(dt.timedelta(hours=5)), in seconds
PktOffset == 18000

\* EMPLOYMENTS' display names, in the same order
Names == <<"VOID", "Sufyan">>

\* str(employment_id)
EmpKey(employment_id) == ToString(employment_id)

EmpKeys == {EmpKey(EMPLOYMENTS[i]) : i \in 1..Len(EMPLOYMENTS)}

FlagKeys == {"notified_start", "notified_end"}

\* ------------------------------------------------------------ Python dicts
\* A dict is a function; its keys are its DOMAIN.
EmptyDict == <<>>

\* Mutant: the entry is assigned, d[k] = v, whether or not it exists
SetDefault_Overwrite(d, k, v) == (k :> v) @@ d

\* d.setdefault(k, v): the dict after the call (an existing entry is kept)
SetDefault(d, k, v) == IF k \in DOMAIN d THEN d ELSE (k :> v) @@ d

\* d[k] = v
SetItem(d, k, v) == (k :> v) @@ d

\* d.get(k) is truthy, for a number: present and not 0
Truthy(d, k) == k \in DOMAIN d /\ d[k] # 0

\* d.get(k) is truthy, for a string: present and not ""
TruthyStr(d, k) == k \in DOMAIN d /\ d[k] # ""

\* ------------------------------------------------- the state document, JSON
\* The file is NoFile (does not exist), Unreadable (exists, but opening or
\* decoding it raises) or the sequence of chunks written to it.  A chunk is
\*   obj        {                  (the document's opening brace)
\*   key k      "k": {             (a member whose value is an object)
\*   leaf k v   "k": {flags}       (one session entry, written whole)
\*   end        }
NoFile == <<[t |-> "nofile"]>>
Unreadable == <<[t |-> "unreadable"]>>

TObj == [t |-> "obj"]
TEnd == [t |-> "end"]
TKey(k) == [t |-> "key", k |-> k]
TLeaf(k, v) == [t |-> "leaf", k |-> k, v |-> v]

\* The keys of a dict in the order json.dump writes them (one fixed order)
RECURSIVE KeyOrder(_)
KeyOrder(S) ==
    IF S = {} THEN <<>>
    ELSE LET k == CHOOSE x \in S : TRUE
         IN <<k>> \o KeyOrder(S \ {k})

\* json.dump writes dict keys as strings: str keys as they are
KeyStr(k) == k

\* The chunks of one employment's mapping: "emp": { entries }
RECURSIVE DumpSessions(_, _)
DumpSessions(sessions, keys) ==
    IF keys = <<>> THEN <<>>
    ELSE <<TLeaf(KeyStr(Head(keys)), sessions[Head(keys)])>>
         \o DumpSessions(sessions, Tail(keys))

RECURSIVE DumpEmps(_, _)
DumpEmps(emps, keys) ==
    IF keys = <<>> THEN <<>>
    ELSE <<TKey(KeyStr(Head(keys)))>>
         \o DumpSessions(emps[Head(keys)], KeyOrder(DOMAIN emps[Head(keys)]))
         \o <<TEnd>>
         \o DumpEmps(emps, Tail(keys))

\* Mutant: the subjects' mappings are written at the top level, without the
\* "sessions" member around them
json_dump_NoWrapper(st) ==
    <<TObj>>
    \o (IF "sessions" \in DOMAIN st
        THEN DumpEmps(st["sessions"], KeyOrder(DOMAIN st["sessions"]))
        ELSE <<>>)
    \o <<TEnd>>

\* json.dump(state, f, indent=2): everything written to the file, in order
json_dump(st) ==
    <<TObj>>
    \o (IF "sessions" \in DOMAIN st
        THEN <<TKey("sessions")>>
             \o DumpEmps(st["sessions"], KeyOrder(DOMAIN st["sessions"]))
             \o <<TEnd>>
        ELSE <<>>)
    \o <<TEnd>>

\* The members of an object from chunk i up to its closing brace:
\* ok is FALSE when the text ends, or is malformed, before the brace.
RECURSIVE ParseMembers(_, _, _)
ParseMembers(toks, i, acc) ==
    IF i > Len(toks) THEN [ok |-> FALSE, val |-> acc, next |-> i]
    ELSE LET tk == toks[i] IN
         CASE tk.t = "end" -> [ok |-> TRUE, val |-> acc, next |-> i + 1]
           [] tk.t = "leaf" -> ParseMembers(toks, i + 1, SetItem(acc, tk.k, tk.v))
           [] tk.t = "key" ->
                LET sub == ParseMembers(toks, i + 1, EmptyDict) IN
                IF sub.ok
                THEN ParseMembers(toks, sub.next, SetItem(acc, tk.k, sub.val))
                ELSE [ok |-> FALSE, val |-> acc, next |-> sub.next]
           [] OTHER -> [ok |-> FALSE, val |-> acc, next |-> i]

\* json.load(f): ok is FALSE where json.load raises (empty, truncated or
\* malformed text, or text after the document)
json_load(toks) ==
    IF toks = <<>> \/ toks[1].t # "obj" THEN [ok |-> FALSE, val |-> EmptyDict]
    ELSE LET r == ParseMembers(toks, 2, EmptyDict) IN
         IF r.ok /\ r.next = Len(toks) + 1
         THEN [ok |-> TRUE, val |-> r.val]
         ELSE [ok |-> FALSE, val |-> EmptyDict]

EmptyState == [sessions |-> EmptyDict]

\* Mutant: no try / except around open and json.load
load_state_NoCatch(file) ==
    IF file = NoFile THEN [raised |-> FALSE, val |-> EmptyState]
    ELSE IF file = Unreadable THEN [raised |-> TRUE, val |-> EmptyState]
    ELSE IF json_load(file).ok THEN [raised |-> FALSE, val |-> json_load(file).val]
    ELSE [raised |-> TRUE, val |-> EmptyState]

\* load_state(): the parsed document; the empty state when the file is
\* missing, or when opening, decoding or parsing it raises
load_state(file) ==
    IF file = NoFile THEN [raised |-> FALSE, val |-> EmptyState]
    ELSE IF file = Unreadable THEN [raised |-> FALSE, val |-> EmptyState]
    ELSE IF json_load(file).ok THEN [raised |-> FALSE, val |-> json_load(file).val]
    ELSE [raised |-> FALSE, val |-> EmptyState]

\* Mutant: only the sessions still open are written
save_state_OpenOnly(st) ==
    json_dump([st EXCEPT !["sessions"] =
        [e \in DOMAIN @ |->
            [a \in {b \in DOMAIN @[e] :
                        ~("notified_end" \in DOMAIN @[e][b] /\ @[e][b]["notified_end"])}
             |-> @[e][a]]]])

\* save_state(state): the file's content once the with block has closed it
save_state(st) == json_dump(st)

\* ------------------------------------------------------ the activity source
\* The activityIds the source returns
ActivityIds == {"a1"}

\* An activity as GetActivities returns it: `from` may be missing or 0,
\* `to` is missing while the session is open.
Activities ==
    {[activityId |-> id] @@ f @@ t :
        id \in ActivityIds,
        f \in {EmptyDict, [from |-> 0], [from |-> 100]},
        t \in {EmptyDict, [to |-> 160]}}

\* fetch_activities_for_today returns a list of any activities (a non-list
\* response gives []).  The loop reads the list item by item and nothing
\* else reads it, so the model keeps the list's length and draws each item
\* when the loop reaches it.
PollLengths == 0..MaxActs

\* ---------------------------------------------------------- the dispatcher
\* The WHATSAPP_* environment of the deployment:
\*   full         all three variables set
\*   noRecipient  WHATSAPP_TO_NUMBER missing
\*   none         WHATSAPP_PHONE_NUMBER_ID or WHATSAPP_TOKEN missing
WaEnvs == {"full", "noRecipient", "none"}

\* whatsapp_send_text / whatsapp_send_video: "skipped" returns before any
\* request; "accepted" is a status below 400, "rejected" one of 400 or more
\* (printed, not raised); "raise" is requests.post raising.
SendOutcomes(e) ==
    IF e # "full" THEN {"skipped"} ELSE {"accepted", "rejected", "raise"}

\* whatsapp_upload_media: "none" is a None return, "handle" a media id
UploadOutcomes(e) ==
    IF e = "none" THEN {"none"} ELSE {"handle", "none", "raise"}

\* ------------------------------------------------------ run_once, one activity
DefaultFlags == [notified_start |-> FALSE, notified_end |-> FALSE]

NoCall == [exc |-> "none", start |-> "no", end |-> "no", kind |-> "no",
           fetched |-> FALSE, built |-> FALSE, uploaded |-> FALSE]

\* Mutant: the Start flag is set without a message
StartResults_Silent(a, sess, e) ==
    IF ~Truthy(a, "from") \/ sess["notified_start"]
    THEN {[sess |-> sess, log |-> NoCall]}
    ELSE {[sess |-> SetItem(sess, "notified_start", TRUE), log |-> NoCall]}

\* Mutant: no Start for a session that is already closed
StartResults_OnlyOpen(a, sess, e) ==
    IF ~Truthy(a, "from") \/ Truthy(a, "to") THEN {[sess |-> sess, log |-> NoCall]}
    ELSE IF "notified_start" \notin DOMAIN sess
    THEN {[sess |-> sess, log |-> [NoCall EXCEPT !.exc = "KeyError"]]}
    ELSE IF sess["notified_start"] THEN {[sess |-> sess, log |-> NoCall]}
    ELSE {IF o = "raise"
          THEN [sess |-> sess, log |-> [NoCall EXCEPT !.exc = "dispatcher", !.start = o]]
          ELSE [sess |-> SetItem(sess, "notified_start", TRUE),
                log |-> [NoCall EXCEPT !.start = o]]
          : o \in SendOutcomes(e)}

\* START notification: `if start_ts and not sess_state["notified_start"]`
StartResults(a, sess, e) ==
    IF ~Truthy(a, "from") THEN {[sess |-> sess, log |-> NoCall]}
    ELSE IF "notified_start" \notin DOMAIN sess
    THEN {[sess |-> sess, log |-> [NoCall EXCEPT !.exc = "KeyError"]]}
    ELSE IF sess["notified_start"] THEN {[sess |-> sess, log |-> NoCall]}
    ELSE {IF o = "raise"
          THEN [sess |-> sess, log |-> [NoCall EXCEPT !.exc = "dispatcher", !.start = o]]
          ELSE [sess |-> SetItem(sess, "notified_start", TRUE),
                log |-> [NoCall EXCEPT !.start = o]]
          : o \in SendOutcomes(e)}

\* What the End branch does after the guard: screenshots, video, upload, send
EndPaths(e) ==
    LET P == [NoCall EXCEPT !.fetched = TRUE] IN
    \* fetch_screenshots_for_activity raises
    {[P EXCEPT !.exc = "screenshots"]}
    \* build_session_video returns None (no screenshots, no frames, no writer)
    \cup {[P EXCEPT !.kind = "text", !.end = o,
                    !.exc = IF o = "raise" THEN "dispatcher" ELSE "none"]
          : o \in SendOutcomes(e)}
    \* a video was built: upload, then the video or the fallback text
    \cup UNION {
          IF u = "raise"
          THEN {[P EXCEPT !.built = TRUE, !.uploaded = TRUE, !.exc = "dispatcher"]}
          ELSE {[P EXCEPT !.built = TRUE, !.uploaded = (e # "none"),
                          !.kind = IF u = "handle" THEN "video" ELSE "text",
                          !.end = o,
                          !.exc = IF o = "raise" THEN "dispatcher" ELSE "none"]
                : o \in SendOutcomes(e)}
          : u \in UploadOutcomes(e)}

\* Mutant: the End branch never sets notified_end
EndResults_NoMark(a, sess, e) ==
    IF ~Truthy(a, "to") THEN {[sess |-> sess, log |-> NoCall]}
    ELSE IF "notified_end" \notin DOMAIN sess
    THEN {[sess |-> sess, log |-> [NoCall EXCEPT !.exc = "KeyError"]]}
    ELSE IF sess["notified_end"] THEN {[sess |-> sess, log |-> NoCall]}
    ELSE IF "from" \notin DOMAIN a
    THEN {[sess |-> sess, log |-> [NoCall EXCEPT !.exc = "TypeError"]]}
    ELSE {[sess |-> sess, log |-> p] : p \in EndPaths(e)}

\* END notification: `if end_ts and not sess_state["notified_end"]`
EndResults(a, sess, e) ==
    IF ~Truthy(a, "to") THEN {[sess |-> sess, log |-> NoCall]}
    ELSE IF "notified_end" \notin DOMAIN sess
    THEN {[sess |-> sess, log |-> [NoCall EXCEPT !.exc = "KeyError"]]}
    ELSE IF sess["notified_end"] THEN {[sess |-> sess, log |-> NoCall]}
    \* max(0, end_ts - start_ts) with start_ts None
    ELSE IF "from" \notin DOMAIN a
    THEN {[sess |-> sess, log |-> [NoCall EXCEPT !.exc = "TypeError"]]}
    ELSE {[sess |-> IF p.exc = "none" THEN SetItem(sess, "notified_end", TRUE) ELSE sess,
           log |-> p] : p \in EndPaths(e)}

\* The loop body for one activity with an activityId: both transitions.
\* The result's log joins the Start call with what the End branch did.
ActivityResults(a, sess, e) ==
    UNION {
        IF s.log.exc # "none" THEN {s}
        ELSE {[sess |-> r.sess, log |-> [r.log EXCEPT !.start = s.log.start]]
              : r \in EndResults(a, s.sess, e)}
        : s \in StartResults(a, sess, e)}

\* ------------------------------------------------------------------- state
VARIABLES
    doc,         \* session_state.json on disk
    env,         \* the WHATSAPP_* environment
    pc,          \* where run_once is: idle, poll, acts, save, write (and,
                 \* in SpecSession: start, end, shots, build, frame,
                 \* upload, send, rest; in SpecClock: idle between two
                 \* invocations, poll when one is due)
    state,       \* run_once's `state` dict
    ei,          \* index into EMPLOYMENTS of the subject being processed
    nacts,       \* len(activities), the list fetched for that subject
    ai,          \* index of the next activity of that list
    runs,        \* run_once invocations started
    lastExit,    \* how the latest run ended: none, ok, killed or an exception
    clean,       \* every run so far returned normally
    docAtLoad,   \* the file as the latest run's load_state found it
    \* What has happened to one session, obs: any one (subject, session),
    \* fixed at the start, so what holds of obs holds of every session.
    obs,
    startSent,   \* Start dispatcher calls for obs so far (0, 1, more)
    endSent,     \* End dispatcher calls for obs so far (0, 1, more)
    pipelines,   \* screenshot fetches for obs so far (0, 1, more)
    accepted,    \* flags of obs whose message the dispatcher accepted
    unsaved,     \* flags of obs dispatched since the last completed save
    seenFrom,    \* times obs was processed with `from` present (0, 1, more)
    seenTo       \* times obs was processed with `to` present (0, 1, more)

\* The End branch of one session in detail (the specification SpecSession):
\* what the loop body holds between its calls
VARIABLES
    activity,            \* the activity of the loop body (run_once's `a`)
    data,                \* the list GetScreenshots answered, until it is filtered
    screenshots,         \* what fetch_screenshots_for_activity returned
    screenshots_sorted,  \* build_session_video's sorted list
    si,                  \* index of the next screenshot of that list
    frames,              \* build_session_video's frames, each the screenshot
                         \* it was made from
    downloads,           \* the ids whose url was requested, in request order
    failed,              \* the ids whose processing raised inside the try
    video_info,          \* <<>> for None, else <<the tuple returned>>
    media_id,            \* whatsapp_upload_media's return ("" for None)
    detected_end_ts,     \* utc_now_ts() when the End branch was entered
    calls                \* this run's source and dispatcher calls for the session

\* The clock and the source's record of one session (the specification
\* SpecClock)
VARIABLES
    now,                 \* the time, in seconds since the epoch
    began,               \* the session's start time at the source
    ended                \* its end time at the source (0 while it is open)

\* What the text helpers compute (the specification SpecDuration)
VARIABLES
    active_duration,     \* run_once's active_duration (-1 before line 411)
    dur_str,             \* format_duration's return ("" before the call)
    img,                 \* img.size, <<width, height>> (<<>> without an image)
    wh,                  \* `w, h = img.size` of line 263 (<<>> before it)
    shot,                \* the screenshot annotate_frame is called for
    main_app,            \* the applicationName chosen ("" for None)
    text                 \* the lines of the overlay text drawn

\* The timelapse of report.py (the specification SpecTimelapse)
VARIABLES
    records,             \* build_timelapse_mp4's records
    recs,                \* the records sorted by timestamp
    ri,                  \* enumerate's number of the next record (`i`)
    image_paths          \* the image files written, by name

\* The daily summary of main.py (the specification SpecSummary)
VARIABLES
    day_activities,      \* build_activity_summary's `activities`
    day_screenshots,     \* its `screenshots`
    sa,                  \* index of the next activity of the grouping loop
    sessions_by_note,    \* the notes in insertion order, each with its sessions
    earliest,            \* <<>> for None, else <<the earliest start>>
    latest,              \* <<>> for None, else <<the latest end>>
    total_duration,
    printed_sessions,
    lines                \* the lines of the summary, as records of their parts

pipe == <<activity, data, screenshots, screenshots_sorted, si, frames, downloads,
          failed, video_info, media_id, detected_end_ts, calls>>

clock == <<now, began, ended>>

calc == <<active_duration, dur_str, img, wh, shot, main_app, text>>

report == <<records, recs, ri, image_paths>>

summary == <<day_activities, day_screenshots, sa, sessions_by_note, earliest,
             latest, total_duration, printed_sessions, lines>>

daily == <<report, summary>>

vars == <<doc, env, pc, state, ei, nacts, ai, runs, lastExit, clean,
          docAtLoad, obs, startSent, endSent, pipelines, accepted, unsaved,
          seenFrom, seenTo, pipe, clock, calc, daily>>

hist == <<obs, startSent, endSent, pipelines, accepted, unsaved, seenFrom,
          seenTo>>

Sessions == EmpKeys \X ActivityIds

\* Documents a deployment can find in place of its own: none, one that cannot
\* be read, a cut-off one, one without the sessions mapping, entries
\* without one or both flags, and a document with sessions of earlier days.
StateFiles ==
    LET e1 == EmpKey(EMPLOYMENTS[1])
        e2 == EmpKey(EMPLOYMENTS[2])
    IN {NoFile, Unreadable, <<TObj, TKey("sessions")>>, <<TObj, TEnd>>,
        json_dump([sessions |-> (e1 :> ("a1" :> EmptyDict))]),
        json_dump([sessions |-> (e2 :> ("a1" :> [notified_start |-> TRUE]))]),
        json_dump([sessions |->
            (e1 :> (("a0" :> [notified_start |-> TRUE, notified_end |-> TRUE])
                    @@ ("a1" :> [notified_start |-> TRUE, notified_end |-> FALSE])))
            @@ (e2 :> EmptyDict)])}

\* Outside the End branch nothing of it is held
PipeIdle ==
    /\ activity = EmptyDict
    /\ data = <<>>
    /\ screenshots = <<>>
    /\ screenshots_sorted = <<>>
    /\ si = 1
    /\ frames = <<>>
    /\ downloads = <<>>
    /\ failed = {}
    /\ video_info = <<>>
    /\ media_id = ""
    /\ detected_end_ts = 0
    /\ calls = <<>>

\* The specifications without a clock keep it at the epoch
ClockIdle == now = 0 /\ began = 0 /\ ended = 0

\* The specifications of run_once do not hold the helpers' values
CalcIdle ==
    /\ active_duration = -1 /\ dur_str = ""
    /\ img = <<>> /\ wh = <<>>
    /\ shot = EmptyDict /\ main_app = "" /\ text = <<>>

\* Outside build_timelapse_mp4 nothing of it is held
ReportIdle == records = <<>> /\ recs = <<>> /\ ri = 1 /\ image_paths = <<>>

\* Outside build_activity_summary nothing of it is held
SummaryIdle ==
    /\ day_activities = <<>> /\ day_screenshots = <<>> /\ sa = 1
    /\ sessions_by_note = <<>> /\ earliest = <<>> /\ latest = <<>>
    /\ total_duration = 0 /\ printed_sessions = 0 /\ lines = <<>>

DailyIdle == ReportIdle /\ SummaryIdle

InitWith(file) ==
    /\ doc = file
    /\ env \in WaEnvs
    /\ pc = "idle"
    /\ state = EmptyState
    /\ ei = 1
    /\ nacts = 0
    /\ ai = 1
    /\ runs = 0
    /\ lastExit = "none"
    /\ clean = TRUE
    /\ docAtLoad = file
    /\ obs \in Sessions
    /\ startSent = 0
    /\ endSent = 0
    /\ pipelines = 0
    /\ accepted = {}
    /\ unsaved = {}
    /\ seenFrom = 0
    /\ seenTo = 0
    /\ PipeIdle
    /\ ClockIdle
    /\ DailyIdle
    /\ CalcIdle

\* A new deployment: no state file yet
Init == InitWith(NoFile)

\* The run ends by an exception (or is killed): nothing more is written
Abort(cause) ==
    /\ pc' = "idle"
    /\ lastExit' = cause
    /\ clean' = FALSE
    /\ state' = EmptyState
    /\ ei' = 1
    /\ nacts' = 0
    /\ ai' = 1

\* Mutant: save_state inside the loop over the subjects
AfterSubject_SaveInLoop(i) == [pc |-> "save", ei |-> i + 1]

\* After the last activity of subject i: the next subject, or save_state
AfterSubject(i) ==
    IF i < Len(EMPLOYMENTS) THEN [pc |-> "poll", ei |-> i + 1]
    ELSE [pc |-> "save", ei |-> i + 1]

\* run_once starts: state = load_state()
LoadState ==
    /\ pc = "idle"
    /\ runs < MaxRuns
    /\ runs' = runs + 1
    /\ docAtLoad' = doc
    /\ ei' = 1
    /\ nacts' = 0
    /\ ai' = 1
    /\ IF load_state(doc).raised
       THEN /\ pc' = "idle"
            /\ lastExit' = "JSONDecodeError"
            /\ clean' = FALSE
            /\ state' = EmptyState
       ELSE /\ pc' = "poll"
            /\ lastExit' = "none"
            /\ state' = load_state(doc).val
            /\ UNCHANGED clean
    /\ UNCHANGED <<doc, env, hist, pipe, clock, calc, daily>>

\* for employment_id ...: setdefault of the subject's mapping, then
\* fetch_activities_for_today, which raises or returns a list
PollSubject ==
    /\ pc = "poll"
    /\ IF "sessions" \notin DOMAIN state
       THEN Abort("KeyError")
       ELSE \/ Abort("source")
            \/ \E got \in PollLengths :
                 /\ state' = [state EXCEPT !["sessions"] =
                                SetDefault(@, EmpKey(EMPLOYMENTS[ei]), EmptyDict)]
                 /\ nacts' = got
                 /\ ai' = 1
                 /\ IF got = 0
                    THEN pc' = AfterSubject(ei).pc /\ ei' = AfterSubject(ei).ei
                    ELSE pc' = "acts" /\ UNCHANGED ei
                 /\ UNCHANGED <<lastExit, clean>>
    /\ UNCHANGED <<doc, env, runs, docAtLoad, hist, pipe, clock, calc, daily>>

\* The call counters count 0, 1, "more than once"
Bump(count, called) == IF called /\ count < 2 THEN count + 1 ELSE count

Flag(cond, k) == IF cond THEN {k} ELSE {}

Returned(o) == o \in {"accepted", "rejected", "skipped"}

\* The loop body for activities[ai]: `continue` without an activityId, else
\* setdefault of the session's flags and the two transitions; an exception
\* leaves run_once, the last activity of the list ends the subject.
ProcessActivity ==
    /\ pc = "acts"
    /\ \E a \in Activities :
       LET emp == EmpKey(EMPLOYMENTS[ei])
           last == ai = nacts
           nextPc == IF last THEN AfterSubject(ei).pc ELSE "acts"
           nextEi == IF last THEN AfterSubject(ei).ei ELSE ei
       IN IF ~TruthyStr(a, "activityId")
          THEN /\ pc' = nextPc /\ ei' = nextEi /\ ai' = ai + 1
               /\ UNCHANGED <<state, nacts, lastExit, clean, hist>>
          ELSE LET aid == a["activityId"]
                   x == <<emp, aid>>
                   sessions_for_emp ==
                       SetDefault(state["sessions"][emp], aid, DefaultFlags)
                   \* the calls are recorded for the observed session only
                   results ==
                       {IF x = obs THEN q ELSE [q EXCEPT !.log = [NoCall EXCEPT !.exc = q.log.exc]]
                        : q \in ActivityResults(a, sessions_for_emp[aid], env)}
               IN \E r \in results :
                    /\ IF x = obs
                       THEN /\ startSent' = Bump(startSent, r.log.start # "no")
                            /\ endSent' = Bump(endSent, r.log.end # "no")
                            /\ pipelines' = Bump(pipelines, r.log.fetched)
                            /\ accepted' = accepted
                                 \cup Flag(r.log.start = "accepted", "notified_start")
                                 \cup Flag(r.log.end = "accepted", "notified_end")
                            /\ unsaved' = unsaved
                                 \cup Flag(Returned(r.log.start), "notified_start")
                                 \cup Flag(Returned(r.log.end), "notified_end")
                            /\ seenFrom' = Bump(seenFrom, Truthy(a, "from"))
                            /\ seenTo' = Bump(seenTo, Truthy(a, "to"))
                            /\ UNCHANGED obs
                       ELSE UNCHANGED hist
                    /\ IF r.log.exc # "none"
                       THEN Abort(r.log.exc)
                       ELSE /\ state' = [state EXCEPT !["sessions"][emp] =
                                           SetItem(sessions_for_emp, aid, r.sess)]
                            /\ pc' = nextPc /\ ei' = nextEi /\ ai' = ai + 1
                            /\ UNCHANGED <<nacts, lastExit, clean>>
    /\ UNCHANGED <<doc, env, runs, docAtLoad, pipe, clock, calc, daily>>

\* save_state: STATE_FILE.open("w") creates or truncates the file
SaveOpen ==
    /\ pc = "save"
    /\ doc' = <<>>
    /\ pc' = "write"
    /\ UNCHANGED <<env, state, ei, nacts, ai, runs, lastExit, clean,
                   docAtLoad, hist, pipe, clock, calc, daily>>

\* save_state: json.dump's chunks reach the file a buffer at a time; the
\* last ones when the with block closes it, and run_once returns
SaveWrite ==
    /\ pc = "write"
    /\ LET full == save_state(state)
           upto == IF Len(doc) + BufferChunks < Len(full)
                   THEN Len(doc) + BufferChunks ELSE Len(full)
       IN
       /\ doc' = SubSeq(full, 1, upto)
       /\ IF upto = Len(full)
          THEN /\ pc' = "idle"
               /\ lastExit' = "ok"
               /\ unsaved' = {}
          ELSE UNCHANGED <<pc, lastExit, unsaved>>
    /\ UNCHANGED <<env, state, ei, nacts, ai, runs, clean, docAtLoad,
                   obs, startSent, endSent, pipelines, accepted, seenFrom,
                   seenTo, pipe, clock, calc, daily>>

\* The process stops (killed, power loss) wherever run_once is
Kill ==
    /\ pc # "idle"
    /\ Abort("killed")
    /\ UNCHANGED <<doc, env, runs, docAtLoad, hist, pipe, clock, calc, daily>>

Next == LoadState \/ PollSubject \/ ProcessActivity \/ SaveOpen \/ SaveWrite \/ Kill

Spec == Init /\ [][Next]_vars

\* The same program, with the full WHATSAPP_* environment, started on any of
\* the documents of StateFiles; the session observed is the first subject's
InitDocs ==
    /\ \E file \in StateFiles : InitWith(file)
    /\ env = "full"
    /\ obs = <<EmpKey(EMPLOYMENTS[1]), "a1">>

SpecDocs == InitDocs /\ [][Next]_vars

\* ------------------------------------------- one session, the End branch
\* SpecSession follows run_once through one session of the first subject:
\* the loop body of lines 385-456 call by call, with what the source and
\* the dispatcher answer.  The second subject has no activities, and
\* save_state writes the document in one step (a cut-off save is Spec's).
\* Which messages the dispatcher accepted, and which flags are not yet
\* saved, is Spec's bookkeeping: accepted and unsaved stay empty here.

\* A note is a sequence of characters
NoNote == <<"(", "n", "o", " ", "n", "o", "t", "e", ")">>

\* str.strip(): the blanks at both ends removed
RECURSIVE LStrip(_)
LStrip(str) ==
    IF str # <<>> /\ Head(str) = " " THEN LStrip(Tail(str)) ELSE str

RECURSIVE RStrip(_)
RStrip(str) ==
    IF str # <<>> /\ str[Len(str)] = " "
    THEN RStrip(SubSeq(str, 1, Len(str) - 1)) ELSE str

Strip(str) == RStrip(LStrip(str))

\* note = (a.get("note") or "").strip() or "(no note)"
NoteOf(act) ==
    LET raw == IF "note" \in DOMAIN act THEN act["note"] ELSE <<>>
    IN IF Strip(raw) # <<>> THEN Strip(raw) ELSE NoNote

\* The activities of the session as the source returns them: those of
\* Activities, with or without a note
SessionActivities ==
    {act @@ n : act \in Activities, n \in {EmptyDict, [note |-> <<" ", "q", " ">>]}}

\* f"{m:02d}"
TwoDigits(m) == IF m < 10 THEN "0" \o ToString(m) ELSE ToString(m)

\* format_pkt_time(ts): the time of day in PKT, strftime("%I:%M %p")
format_pkt_time(ts) ==
    LET secs == (ts + PktOffset) % DaySeconds
        H == secs \div 3600
        M == (secs % 3600) \div 60
        I == IF H % 12 = 0 THEN 12 ELSE H % 12
    IN TwoDigits(I) \o ":" \o TwoDigits(M) \o (IF H < 12 THEN " AM" ELSE " PM")

\* Mutant: the seconds are rounded to the nearest minute
format_duration_Rounded(seconds) ==
    LET secs == (IF seconds > 0 THEN seconds ELSE 0) + 30
        h == secs \div 3600
        m == (secs % 3600) \div 60
    IN IF h > 0 THEN ToString(h) \o "h " \o TwoDigits(m) \o "m"
       ELSE ToString(m) \o "m"

\* format_duration(seconds)
format_duration(seconds) ==
    LET secs == IF seconds > 0 THEN seconds ELSE 0
        h == secs \div 3600
        m == (secs % 3600) \div 60
    IN IF h > 0 THEN ToString(h) \o "h " \o TwoDigits(m) \o "m"
       ELSE ToString(m) \o "m"

\* active_duration = max(0, end_ts - start_ts)
ActiveDuration(act) ==
    IF act["to"] - act["from"] > 0 THEN act["to"] - act["from"] ELSE 0

\* The START message (the clock time of the text is left out)
StartMsg(name, act) ==
    [verb |-> "STARTED", name |-> name, note |-> NoteOf(act)]

\* Mutant: the fallback text without the note
EndMsg_NoNote(verb, name, act) ==
    [verb |-> verb, name |-> name,
     dur |-> format_duration(ActiveDuration(act))]

\* The two fallback texts of the End branch: "FINISHED" after an upload
\* without a media id, "finished" without a video
EndMsg(verb, name, act) ==
    [verb |-> verb, name |-> name, note |-> NoteOf(act),
     dur |-> format_duration(ActiveDuration(act))]

\* Mutant: the caption ends at the end time the source gives
Caption_SourceEnd(name, act, info, det) ==
    [verb |-> "STOPPED", name |-> name, note |-> NoteOf(act),
     start |-> format_pkt_time(act["from"]), end |-> format_pkt_time(act["to"]),
     dur |-> format_duration(ActiveDuration(act)),
     frame_count |-> info.frame_count]
    @@ (IF info.avg_level # <<>> THEN [avg |-> info.avg_level[1]] ELSE EmptyDict)

\* The caption of the video message, lines 424-434: its parts in the order
\* of the text; `avg` only `if avg_level is not None`
Caption(name, act, info, det) ==
    [verb |-> "STOPPED", name |-> name, note |-> NoteOf(act),
     start |-> format_pkt_time(act["from"]), end |-> format_pkt_time(det),
     dur |-> format_duration(ActiveDuration(act)),
     frame_count |-> info.frame_count]
    @@ (IF info.avg_level # <<>> THEN [avg |-> info.avg_level[1]] ELSE EmptyDict)

\* One screenshot of a GetScreenshots answer, without its id: one of the
\* session, where `taken` and `url` may be missing, or one of another session
ShotFields ==
    {[activityId |-> "a1"] @@ t @@ u :
        t \in {EmptyDict, [taken |-> 10], [taken |-> 20]},
        u \in {EmptyDict, [url |-> "u"]}}
    \cup {[activityId |-> "a2", taken |-> 10, url |-> "u"]}

\* The lists GetScreenshots answers: the id of a screenshot is its place in
\* the answer
SourceShots ==
    UNION {{[i \in 1..n |-> [id |-> i] @@ f[i]] : f \in [1..n -> ShotFields]}
           : n \in 0..MaxShots}

\* Mutant: the answer is returned as it is
fetch_screenshots_for_activity_NoFilter(activity_id, resp) == resp

\* fetch_screenshots_for_activity: [s for s in data if s.get("activityId") == activity_id]
fetch_screenshots_for_activity(activity_id, resp) ==
    SelectSeq(resp, LAMBDA s : "activityId" \in DOMAIN s
                               /\ s["activityId"] = activity_id)

\* key=lambda s: s.get("taken", 0)
TakenKey(s) == IF "taken" \in DOMAIN s THEN s["taken"] ELSE 0

\* Mutant: a screenshot goes before those of the same key
RECURSIVE InsertByKey_BeforeEqual(_, _)
InsertByKey_BeforeEqual(sortedSoFar, s) ==
    IF sortedSoFar = <<>> THEN <<s>>
    ELSE LET n == Len(sortedSoFar) IN
         IF TakenKey(sortedSoFar[n]) < TakenKey(s) THEN Append(sortedSoFar, s)
         ELSE Append(InsertByKey_BeforeEqual(SubSeq(sortedSoFar, 1, n - 1), s),
                     sortedSoFar[n])

\* sorted() is stable: s goes after every screenshot whose key is not larger
RECURSIVE InsertByKey(_, _)
InsertByKey(sortedSoFar, s) ==
    IF sortedSoFar = <<>> THEN <<s>>
    ELSE LET n == Len(sortedSoFar) IN
         IF TakenKey(sortedSoFar[n]) <= TakenKey(s) THEN Append(sortedSoFar, s)
         ELSE Append(InsertByKey(SubSeq(sortedSoFar, 1, n - 1), s),
                     sortedSoFar[n])

\* sorted(screenshots, key=lambda s: s.get("taken", 0))
RECURSIVE Sorted(_)
Sorted(shots) ==
    IF shots = <<>> THEN <<>>
    ELSE InsertByKey(Sorted(SubSeq(shots, 1, Len(shots) - 1)), shots[Len(shots)])

\* What can happen to one screenshot inside the try: a frame, or an
\* exception of requests.get, raise_for_status, Image.open / convert,
\* img.resize or annotate_frame
FrameFailures == {"download", "status", "decode", "resize", "annotate"}

FrameOutcomes == {"frame"} \cup FrameFailures

\* Mutant: no try / except around the processing of a screenshot
ScreenshotResults_NoTry(s) ==
    IF ~TruthyStr(s, "url")
    THEN {[frame |-> <<>>, requested |-> FALSE, failed |-> FALSE, exc |-> "none"]}
    ELSE {[frame |-> IF o = "frame" THEN <<s>> ELSE <<>>, requested |-> TRUE,
           failed |-> o # "frame", exc |-> IF o = "frame" THEN "none" ELSE o]
          : o \in FrameOutcomes}

\* The loop body of build_session_video for screenshot s: `continue` without
\* a url, else the try block; the except clause prints and goes on
ScreenshotResults(s) ==
    IF ~TruthyStr(s, "url")
    THEN {[frame |-> <<>>, requested |-> FALSE, failed |-> FALSE, exc |-> "none"]}
    ELSE {[frame |-> IF o = "frame" THEN <<s>> ELSE <<>>, requested |-> TRUE,
           failed |-> o # "frame", exc |-> "none"]
          : o \in FrameOutcomes}

\* sum(levels)
RECURSIVE Sum(_)
Sum(nums) == IF nums = <<>> THEN 0 ELSE Head(nums) + Sum(Tail(nums))

\* Mutant: halves are rounded up
round_HalfUp(p, q) ==
    IF 2 * (p % q) < q THEN p \div q ELSE p \div q + 1

\* round(p / q) for p >= 0 and q > 0: the nearest integer, a half goes to
\* the even neighbour
round(p, q) ==
    LET f == p \div q
        twice == 2 * (p % q)
    IN IF twice < q THEN f
       ELSE IF twice > q THEN f + 1
       ELSE IF f % 2 = 0 THEN f ELSE f + 1

\* levels = [s.get("activityLevel") for s in screenshots
\*           if s.get("activityLevel") is not None]
Levels(shots) ==
    LET having == SelectSeq(shots, LAMBDA s : "activityLevel" \in DOMAIN s)
    IN [i \in 1..Len(having) |-> having[i]["activityLevel"]]

\* avg_level = round(sum(levels) / len(levels)) if levels else None
\* (<<>> for None)
AvgLevel(shots) ==
    IF Levels(shots) = <<>> THEN <<>>
    ELSE <<round(Sum(Levels(shots)), Len(Levels(shots)))>>

\* Mutant: the screenshots are counted, not the frames
BuildReturn_CountShots(shots, frs) ==
    [avg_level |-> AvgLevel(shots), frame_count |-> Len(shots)]

\* return out_path, avg_level, len(frames)
BuildReturn(shots, frs) ==
    [avg_level |-> AvgLevel(shots), frame_count |-> Len(frs)]

\* After the loop: None without frames or without a writer ("nowriter"),
\* an exception of append_data or of closing the writer ("encoder"), else
\* the tuple (out_path, avg_level, len(frames))
WriterOutcomes == {"written", "nowriter", "encoder"}

\* whatsapp_upload_media in detail: None before any request ("skipped"), None
\* for a status of 400 or more ("status") or a body without id ("nohandle"),
\* the id ("handle"), or an exception of requests.post ("transport") or of
\* resp.json() ("unparsable")
UploadDetails(e) ==
    IF e = "none" THEN {"skipped"}
    ELSE {"handle", "status", "nohandle", "transport", "unparsable"}

\* What run_once gets from whatsapp_upload_media, as in UploadOutcomes
UploadReturn(o) ==
    CASE o = "handle" -> "handle"
      [] o \in {"transport", "unparsable"} -> "raise"
      [] OTHER -> "none"

\* Mutant: the End branch is entered without an end time
EndGuard_NoEndTime(act, sess) == ~sess["notified_end"]

\* `if end_ts and not sess_state["notified_end"]`
EndGuard(act, sess) == Truthy(act, "to") /\ ~sess["notified_end"]

\* Mutant: the video message is sent whenever a video was built
EndCall_VideoIfBuilt(name, act, info, mid, det) ==
    IF info # <<>>
    THEN [fn |-> "send_video", media |-> mid, msg |-> Caption(name, act, info[1], det)]
    ELSE [fn |-> "send_text", ev |-> "end", msg |-> EndMsg("finished", name, act)]

\* The one dispatcher call of the End branch: `if video_info:`,
\* `if media_id:` and their else branches
EndCall(name, act, info, mid, det) ==
    IF info # <<>>
    THEN IF mid # ""
         THEN [fn |-> "send_video", media |-> mid, msg |-> Caption(name, act, info[1], det)]
         ELSE [fn |-> "send_text", ev |-> "end", msg |-> EndMsg("FINISHED", name, act)]
    ELSE [fn |-> "send_text", ev |-> "end", msg |-> EndMsg("finished", name, act)]

\* The session's flags in run_once's state
SessState == state["sessions"][obs[1]][obs[2]]

WithSessState(flags) == [state EXCEPT !["sessions"][obs[1]][obs[2]] = flags]

\* The display name of the session's subject
SessName == Names[CHOOSE i \in 1..Len(EMPLOYMENTS) : EmpKey(EMPLOYMENTS[i]) = obs[1]]

\* The activities the source can return for the session's subject: those of
\* the session, and activities whose activityId is missing or empty
SightedActivities ==
    SessionActivities
    \cup {n @@ [from |-> 100] @@ t :
            n \in {EmptyDict, [activityId |-> ""]},
            t \in {EmptyDict, [to |-> 160]}}

\* aid = a.get("activityId"), None written ""
Aid(a) == IF "activityId" \in DOMAIN a THEN a["activityId"] ELSE ""

\* Mutant: no activity is passed over
SkipActivity_Never(a) == FALSE

\* `if not aid: continue`
SkipActivity(a) == ~TruthyStr(a, "activityId")

\* run_once from its start to the loop body of the subject's activity:
\* load_state, the subject's mapping, the list from the source, `continue`
\* without an activityId, else the session's flags
Sight ==
    /\ pc = "idle"
    /\ runs < MaxRuns
    /\ runs' = runs + 1
    /\ docAtLoad' = doc
    /\ lastExit' = "none"
    /\ \E act \in SightedActivities :
         LET loaded == load_state(doc).val
             withEmp == SetDefault(loaded["sessions"], obs[1], EmptyDict)
             sessions_for_emp ==
                 SetDefault(withEmp[obs[1]], Aid(act), DefaultFlags)
         IN /\ activity' = act
            /\ IF SkipActivity(act)
               THEN /\ state' = [sessions |-> withEmp]
                    /\ pc' = "rest"
                    /\ UNCHANGED <<seenFrom, seenTo>>
               ELSE /\ state' = [sessions |-> SetItem(withEmp, obs[1], sessions_for_emp)]
                    /\ pc' = "start"
                    /\ seenFrom' = Bump(seenFrom, Truthy(act, "from"))
                    /\ seenTo' = Bump(seenTo, Truthy(act, "to"))
    /\ ei' = 1 /\ nacts' = 1 /\ ai' = 1
    /\ data' = <<>> /\ screenshots' = <<>> /\ screenshots_sorted' = <<>>
    /\ si' = 1 /\ frames' = <<>> /\ downloads' = <<>> /\ failed' = {}
    /\ video_info' = <<>> /\ media_id' = "" /\ calls' = <<>>
    /\ detected_end_ts' = 0
    /\ UNCHANGED <<doc, env, clean, obs, startSent, endSent, pipelines,
                   accepted, unsaved, clock, calc, daily>>

\* START notification, lines 398-406
SendStart ==
    /\ pc = "start"
    /\ \E r \in StartResults(activity, SessState, env) :
         /\ calls' = IF r.log.start # "no"
                     THEN Append(calls, [fn |-> "send_text", ev |-> "start",
                                         msg |-> StartMsg(SessName, activity)])
                     ELSE calls
         /\ startSent' = Bump(startSent, r.log.start # "no")
         /\ IF r.log.exc # "none"
            THEN Abort(r.log.exc)
            ELSE /\ state' = WithSessState(r.sess)
                 /\ pc' = "end"
                 /\ UNCHANGED <<ei, nacts, ai, lastExit, clean>>
    /\ UNCHANGED <<doc, env, runs, docAtLoad, obs, endSent, pipelines,
                   accepted, unsaved, seenFrom, seenTo, activity, data, screenshots, screenshots_sorted,
                   si, frames, downloads, failed, video_info, media_id,
                   detected_end_ts, clock, calc, daily>>

\* END notification, lines 409-416: the guard and active_duration
DetectEnd ==
    /\ pc = "end"
    /\ IF ~EndGuard(activity, SessState)
       THEN /\ pc' = "rest"
            /\ UNCHANGED <<state, ei, nacts, ai, lastExit, clean>>
       \* max(0, end_ts - start_ts) with start_ts None
       ELSE IF "from" \notin DOMAIN activity
       THEN Abort("TypeError")
       ELSE /\ pc' = "shots"
            /\ UNCHANGED <<state, ei, nacts, ai, lastExit, clean>>
    \* detected_end_ts = utc_now_ts()
    /\ detected_end_ts' =
         IF EndGuard(activity, SessState) /\ "from" \in DOMAIN activity
         THEN now ELSE detected_end_ts
    /\ UNCHANGED <<doc, env, runs, docAtLoad, hist, activity, data, screenshots,
                   screenshots_sorted, si, frames, downloads, failed,
                   video_info, media_id, calls, clock, calc, daily>>

\* screenshots = fetch_screenshots_for_activity(aid): api_post raises, or
\* the answer is filtered (an answer that is no list gives [], as [] does)
FetchScreenshots ==
    /\ pc = "shots"
    /\ calls' = Append(calls, [fn |-> "get_screenshots", id |-> activity["activityId"]])
    /\ pipelines' = Bump(pipelines, TRUE)
    /\ \/ /\ Abort("screenshots")
          /\ UNCHANGED <<data, screenshots>>
       \/ /\ \E resp \in SourceShots :
               /\ data' = resp
               /\ screenshots' = fetch_screenshots_for_activity(activity["activityId"], resp)
          /\ pc' = "build"
          /\ UNCHANGED <<state, ei, nacts, ai, lastExit, clean>>
    /\ UNCHANGED <<doc, env, runs, docAtLoad, obs, startSent, endSent,
                   accepted, unsaved, seenFrom, seenTo, activity, screenshots_sorted,
                   si, frames, downloads, failed, video_info, media_id,
                   detected_end_ts, clock, calc, daily>>

\* Mutant: build_session_video marks the session as ended
SortScreenshots_MarksEnd ==
    /\ pc = "build"
    /\ data' = <<>>
    /\ state' = WithSessState(SetItem(SessState, "notified_end", TRUE))
    /\ IF screenshots = <<>>
       THEN /\ pc' = "send"
            /\ UNCHANGED screenshots_sorted
       ELSE /\ pc' = "frame"
            /\ screenshots_sorted' = Sorted(screenshots)
    /\ UNCHANGED <<doc, env, ei, nacts, ai, runs, lastExit, clean,
                   docAtLoad, hist, activity, screenshots, si, frames, downloads,
                   failed, video_info, media_id, detected_end_ts, calls, clock, calc, daily>>

\* build_session_video, lines 227-250: None without screenshots, else the
\* sorted list and an empty frames list
SortScreenshots ==
    /\ pc = "build"
    /\ data' = <<>>
    /\ IF screenshots = <<>>
       THEN /\ pc' = "send"
            /\ UNCHANGED screenshots_sorted
       ELSE /\ pc' = "frame"
            /\ screenshots_sorted' = Sorted(screenshots)
    /\ UNCHANGED <<doc, env, state, ei, nacts, ai, runs, lastExit, clean,
                   docAtLoad, hist, activity, screenshots, si, frames, downloads,
                   failed, video_info, media_id, detected_end_ts, calls, clock, calc, daily>>

\* build_session_video, lines 251-276: the loop body for the next screenshot
ProcessScreenshot ==
    /\ pc = "frame"
    /\ si <= Len(screenshots_sorted)
    /\ \E r \in ScreenshotResults(screenshots_sorted[si]) :
         LET id == screenshots_sorted[si]["id"] IN
         /\ downloads' = IF r.requested THEN Append(downloads, id) ELSE downloads
         /\ failed' = IF r.failed THEN failed \cup {id} ELSE failed
         /\ frames' = frames \o r.frame
         /\ IF r.exc # "none"
            THEN Abort(r.exc) /\ UNCHANGED si
            ELSE /\ si' = si + 1
                 /\ UNCHANGED <<pc, state, ei, nacts, ai, lastExit, clean>>
    /\ UNCHANGED <<doc, env, runs, docAtLoad, hist, activity, data, screenshots,
                   screenshots_sorted, video_info, media_id, detected_end_ts,
                   calls, clock, calc, daily>>

\* build_session_video, lines 278-300, after the loop.  The function
\* returns, so its lists are gone; nothing reads run_once's `screenshots`
\* after it, and the model drops it here.
WriteVideo ==
    /\ pc = "frame"
    /\ si > Len(screenshots_sorted)
    /\ IF frames = <<>>
       THEN /\ pc' = "send"
            /\ UNCHANGED <<video_info, state, ei, nacts, ai, lastExit, clean>>
       ELSE \E w \in WriterOutcomes :
              CASE w = "nowriter" ->
                     /\ pc' = "send"
                     /\ UNCHANGED <<video_info, state, ei, nacts, ai, lastExit, clean>>
                [] w = "encoder" ->
                     /\ Abort("encoder")
                     /\ UNCHANGED video_info
                [] OTHER ->
                     /\ pc' = "upload"
                     /\ video_info' = <<BuildReturn(screenshots, frames)>>
                     /\ UNCHANGED <<state, ei, nacts, ai, lastExit, clean>>
    /\ screenshots' = <<>> /\ screenshots_sorted' = <<>>
    /\ frames' = <<>> /\ si' = 1
    /\ UNCHANGED <<doc, env, runs, docAtLoad, hist, activity, data, downloads,
                   failed, media_id, detected_end_ts, calls, clock, calc, daily>>

\* media_id = whatsapp_upload_media(video_path)
UploadMedia ==
    /\ pc = "upload"
    /\ calls' = Append(calls, [fn |-> "upload_media"])
    /\ \E o \in UploadDetails(env) :
         IF UploadReturn(o) = "raise"
         THEN /\ Abort("upload")
              /\ UNCHANGED media_id
         ELSE /\ media_id' = IF UploadReturn(o) = "handle" THEN "m1" ELSE ""
              /\ pc' = "send"
              /\ UNCHANGED <<state, ei, nacts, ai, lastExit, clean>>
    /\ UNCHANGED <<doc, env, runs, docAtLoad, hist, activity, data, screenshots,
                   screenshots_sorted, si, frames, downloads, failed,
                   video_info, detected_end_ts, clock, calc, daily>>

\* The video message or one of the fallback texts, then
\* sess_state["notified_end"] = True
SendEnd ==
    /\ pc = "send"
    /\ calls' = Append(calls, EndCall(SessName, activity, video_info, media_id,
                                    detected_end_ts))
    /\ endSent' = Bump(endSent, TRUE)
    /\ \E o \in SendOutcomes(env) :
         IF o = "raise"
         THEN Abort("dispatcher")
         ELSE /\ state' = WithSessState(SetItem(SessState, "notified_end", TRUE))
              /\ pc' = "rest"
              /\ UNCHANGED <<ei, nacts, ai, lastExit, clean>>
    /\ UNCHANGED <<doc, env, runs, docAtLoad, obs, startSent, pipelines,
                   accepted, unsaved, seenFrom, seenTo, activity, data, screenshots, screenshots_sorted,
                   si, frames, downloads, failed, video_info, media_id,
                   detected_end_ts, clock, calc, daily>>

\* The rest of run_once: the other subjects (their call to the source
\* raises, or answers no activities), then save_state
FinishRun ==
    /\ pc = "rest"
    /\ \/ /\ Abort("source")
          /\ UNCHANGED doc
       \/ LET others == EmpKeys \ DOMAIN state["sessions"]
              st == [sessions |-> [k \in others |-> EmptyDict] @@ state["sessions"]]
          IN /\ state' = st
             /\ doc' = save_state(st)
             /\ pc' = "idle"
             /\ lastExit' = "ok"
             /\ UNCHANGED <<ei, nacts, ai, clean>>
    /\ UNCHANGED <<env, runs, docAtLoad, obs, startSent, endSent, pipelines,
                   accepted, unsaved, seenFrom, seenTo, pipe, clock, calc, daily>>

NextSession ==
    \/ Sight \/ SendStart \/ DetectEnd \/ FetchScreenshots \/ SortScreenshots
    \/ ProcessScreenshot \/ WriteVideo \/ UploadMedia \/ SendEnd \/ FinishRun

\* A new deployment; the session followed is the first subject's
InitSession ==
    /\ InitWith(NoFile)
    /\ obs = <<EmpKey(EMPLOYMENTS[1]), "a1">>

SpecSession == InitSession /\ [][NextSession]_vars

\* ------------------------------------ build_session_video and the caption
\* SpecBuild starts where a first run of SpecSession calls
\* build_session_video for a closed session whose Start it has sent, and
\* follows the same steps to the end of run_once.  The screenshots are all
\* the session's and carry an activity level or none; the End was detected
\* some time after the end time the source gives.

\* The closed session as the source returns it
BuildActivities ==
    {[activityId |-> "a1", from |-> 100, to |-> t] @@ n :
        t \in {160, 3800}, n \in {EmptyDict, [note |-> <<"q">>]}}

\* Seconds from the session's end time to utc_now_ts() in the End branch
DetectionDelays == {140, 30000}

\* One screenshot of the session, without its id
BuildShotFields ==
    {[activityId |-> "a1", taken |-> 10] @@ l @@ u :
        l \in {EmptyDict, [activityLevel |-> 0], [activityLevel |-> 1],
               [activityLevel |-> 2]},
        u \in {EmptyDict, [url |-> "u"]}}

\* The lists fetch_screenshots_for_activity returns
BuildShots ==
    UNION {{[i \in 1..n |-> [id |-> i] @@ f[i]] : f \in [1..n -> BuildShotFields]}
           : n \in 0..MaxShots}

InitBuild ==
    /\ doc = NoFile /\ docAtLoad = NoFile
    /\ env \in WaEnvs
    /\ pc = "build"
    /\ obs = <<EmpKey(EMPLOYMENTS[1]), "a1">>
    /\ state = [sessions |->
                  (obs[1] :> (obs[2] :> [notified_start |-> TRUE,
                                         notified_end |-> FALSE]))]
    /\ ei = 1 /\ nacts = 1 /\ ai = 1
    /\ runs = 1
    /\ lastExit = "none"
    /\ clean = TRUE
    /\ startSent = 1 /\ endSent = 0 /\ pipelines = 1
    /\ accepted = {} /\ unsaved = {}
    /\ seenFrom = 1 /\ seenTo = 1
    /\ activity \in BuildActivities
    /\ screenshots \in BuildShots
    /\ data = screenshots
    /\ screenshots_sorted = <<>> /\ si = 1 /\ frames = <<>>
    /\ downloads = <<>> /\ failed = {}
    /\ video_info = <<>> /\ media_id = ""
    /\ \E d \in DetectionDelays : detected_end_ts = activity["to"] + d
    /\ calls = <<[fn |-> "send_text", ev |-> "start",
                  msg |-> StartMsg(SessName, activity)],
                [fn |-> "get_screenshots", id |-> activity["activityId"]]>>
    \* the screenshots took a minute to fetch
    /\ now = detected_end_ts + 60
    /\ began = 0 /\ ended = 0
    /\ CalcIdle
    /\ DailyIdle

NextBuild ==
    \/ SortScreenshots \/ ProcessScreenshot \/ WriteVideo \/ UploadMedia
    \/ SendEnd \/ FinishRun

SpecBuild == InitBuild /\ [][NextBuild]_vars

\* ------------------------------------------- the duration of a session
\* SpecDuration applies lines 411 and 424 / 438 / 447 of run_once to a closed
\* session with any start and end time: active_duration, then
\* format_duration.

\* The closed session: it began at the epoch or later, and ended at any
\* second up to MaxSeconds, before its start too
DurationActivities ==
    {[activityId |-> "a1", from |-> f, to |-> t] :
        f \in {0, 4000}, t \in 1..MaxSeconds}

\* active_duration = max(0, end_ts - start_ts)
ComputeDuration ==
    /\ pc = "end"
    /\ active_duration' = ActiveDuration(activity)
    /\ pc' = "dur"
    /\ UNCHANGED <<doc, env, state, ei, nacts, ai, runs, lastExit, clean,
                   docAtLoad, hist, pipe, clock, dur_str, img, wh, shot,
                   main_app, text, daily>>

\* dur_str = format_duration(active_duration)
FormatDuration ==
    /\ pc = "dur"
    /\ dur_str' = format_duration(active_duration)
    /\ pc' = "formatted"
    /\ UNCHANGED <<doc, env, state, ei, nacts, ai, runs, lastExit, clean,
                   docAtLoad, hist, pipe, clock, active_duration, img, wh,
                   shot, main_app, text, daily>>

NextDuration == ComputeDuration \/ FormatDuration

InitDuration ==
    /\ doc = NoFile /\ docAtLoad = NoFile
    /\ env = "full"
    /\ pc = "end"
    /\ obs = <<EmpKey(EMPLOYMENTS[1]), "a1">>
    /\ state = [sessions |->
                  (obs[1] :> (obs[2] :> [notified_start |-> TRUE,
                                         notified_end |-> FALSE]))]
    /\ ei = 1 /\ nacts = 1 /\ ai = 1
    /\ runs = 1
    /\ lastExit = "none"
    /\ clean = TRUE
    /\ startSent = 1 /\ endSent = 0 /\ pipelines = 0
    /\ accepted = {} /\ unsaved = {}
    /\ seenFrom = 1 /\ seenTo = 1
    /\ activity \in DurationActivities
    /\ data = <<>> /\ screenshots = <<>> /\ screenshots_sorted = <<>>
    /\ si = 1 /\ frames = <<>> /\ downloads = <<>> /\ failed = {}
    /\ video_info = <<>> /\ media_id = "" /\ detected_end_ts = 0
    /\ calls = <<>>
    /\ ClockIdle
    /\ DailyIdle
    /\ CalcIdle

SpecDuration == InitDuration /\ [][NextDuration]_vars

\* ------------------------------------------------ the size of a frame
\* SpecResize applies lines 263-269 of build_session_video (lines 394-403 of
\* main.py's build_annotated_video are the same code) to a decoded image of
\* any size.  target_width / float(w) and h * scale are operations on
\* IEEE 754 doubles: a float is [bits, exp], a sequence of MantissaBits bits,
\* the first one 1 and most significant, and the power of two of the last.

\* target_width=1280
TargetWidth == 1280

\* The bits of a double's significand
MantissaBits == 53

\* The number the bits spell
RECURSIVE BitsValue(_)
BitsValue(bits) ==
    IF bits = <<>> THEN 0
    ELSE 2 * BitsValue(SubSeq(bits, 1, Len(bits) - 1)) + bits[Len(bits)]

\* bits + 1
RECURSIVE BitsInc(_)
BitsInc(bits) ==
    IF bits = <<>> THEN <<1>>
    ELSE LET n == Len(bits) IN
         IF bits[n] = 0 THEN [bits EXCEPT ![n] = 1]
         ELSE Append(BitsInc(SubSeq(bits, 1, n - 1)), 0)

\* Round to nearest, ties to even: the first MantissaBits bits kept, one
\* added when the rest is more than half of the last bit kept, or half of it
\* and the last bit kept is 1.  moreThanHalf / half say what follows the bits.
RoundBits(bits, exp, half, moreThanHalf) ==
    LET up == moreThanHalf \/ (half /\ bits[Len(bits)] = 1)
        inc == BitsInc(bits)
    IN IF ~up THEN [bits |-> bits, exp |-> exp]
       ELSE IF Len(inc) > Len(bits)
       THEN [bits |-> SubSeq(inc, 1, Len(bits)), exp |-> exp + 1]
       ELSE [bits |-> inc, exp |-> exp]

\* Long division: the next n bits of r / b, r < b
RECURSIVE DivBits(_, _, _)
DivBits(r, b, n) ==
    IF n = 0 THEN <<>>
    ELSE IF 2 * r >= b THEN <<1>> \o DivBits(2 * r - b, b, n - 1)
    ELSE <<0>> \o DivBits(2 * r, b, n - 1)

\* and what is left of r after them
RECURSIVE DivRem(_, _, _)
DivRem(r, b, n) ==
    IF n = 0 THEN r
    ELSE IF 2 * r >= b THEN DivRem(2 * r - b, b, n - 1)
    ELSE DivRem(2 * r, b, n - 1)

\* The zeros after the binary point before the first 1 of a / b
RECURSIVE LeadingZeros(_, _)
LeadingZeros(a, b) == IF 2 * a >= b THEN 0 ELSE 1 + LeadingZeros(2 * a, b)

RECURSIVE Pow2(_)
Pow2(n) == IF n = 0 THEN 1 ELSE 2 * Pow2(n - 1)

\* a / float(b) for integers 0 < a < b
FloatDiv(a, b) ==
    LET z == LeadingZeros(a, b)
        r == a * Pow2(z)
        bits == DivBits(r, b, MantissaBits)
        rest == DivRem(r, b, MantissaBits)
    IN RoundBits(bits, 0 - (z + MantissaBits), 2 * rest = b, 2 * rest > b)

\* The bits of n, least significant first
RECURSIVE IntBitsRev(_)
IntBitsRev(n) == IF n = 0 THEN <<>> ELSE <<n % 2>> \o IntBitsRev(n \div 2)

\* bits (least significant first) times n plus carry, least significant first
RECURSIVE MulRev(_, _, _)
MulRev(rev, n, carry) ==
    IF rev = <<>> THEN IntBitsRev(carry)
    ELSE LET t == n * Head(rev) + carry
         IN <<t % 2>> \o MulRev(Tail(rev), n, t \div 2)

Reverse(seq) == [i \in 1..Len(seq) |-> seq[Len(seq) + 1 - i]]

\* n * f for an integer n > 0: the exact product, rounded
FloatMul(n, f) ==
    LET exact == Reverse(MulRev(Reverse(f.bits), n, 0))
        extra == Len(exact) - MantissaBits
        dropped == SubSeq(exact, MantissaBits + 1, Len(exact))
        low == IF extra <= 1 THEN <<>> ELSE SubSeq(dropped, 2, extra)
        sticky == \E i \in 1..Len(low) : low[i] = 1
    IN IF extra = 0 THEN f
       ELSE RoundBits(SubSeq(exact, 1, MantissaBits), f.exp + extra,
                      dropped[1] = 1 /\ ~sticky, dropped[1] = 1 /\ sticky)

\* int(f) for f >= 0: the bits before the binary point
FloatToInt(f) ==
    LET whole == Len(f.bits) + f.exp
    IN IF whole <= 0 THEN 0 ELSE BitsValue(SubSeq(f.bits, 1, whole))

\* (target_width, int(h * scale)) with scale = target_width / float(w)
new_size(width, height) ==
    <<TargetWidth, FloatToInt(FloatMul(height, FloatDiv(TargetWidth, width)))>>

\* The sizes of the images downloaded
ImageSizes ==
    (((TargetWidth - 3)..(TargetWidth + 3)) \cup {1432, 1610, 1920, 2560})
    \X {161, 537, 600, 720, 1080, 1288}

\* w, h = img.size; if w > target_width: img = img.resize(...)
Resize ==
    /\ pc = "resize"
    /\ wh' = img
    /\ img' = IF img[1] > TargetWidth THEN new_size(img[1], img[2]) ELSE img
    /\ pc' = "annotate"
    /\ UNCHANGED <<doc, env, state, ei, nacts, ai, runs, lastExit, clean,
                   docAtLoad, hist, pipe, clock, active_duration, dur_str,
                   shot, main_app, text, daily>>

NextResize == Resize

\* Image.open(...).convert("RGB") has returned in the loop of
\* build_session_video
InitResize ==
    /\ doc = NoFile /\ docAtLoad = NoFile
    /\ env = "full"
    /\ pc = "resize"
    /\ obs = <<EmpKey(EMPLOYMENTS[1]), "a1">>
    /\ state = [sessions |->
                  (obs[1] :> (obs[2] :> [notified_start |-> TRUE,
                                         notified_end |-> FALSE]))]
    /\ ei = 1 /\ nacts = 1 /\ ai = 1
    /\ runs = 1
    /\ lastExit = "none"
    /\ clean = TRUE
    /\ startSent = 1 /\ endSent = 0 /\ pipelines = 1
    /\ accepted = {} /\ unsaved = {}
    /\ seenFrom = 1 /\ seenTo = 1
    /\ activity = [activityId |-> "a1", from |-> 100, to |-> 160]
    /\ data = <<>> /\ screenshots = <<>> /\ screenshots_sorted = <<>>
    /\ si = 1 /\ frames = <<>> /\ downloads = <<>> /\ failed = {}
    /\ video_info = <<>> /\ media_id = "" /\ detected_end_ts = 0
    /\ calls = <<>>
    /\ ClockIdle
    /\ DailyIdle
    /\ active_duration = -1 /\ dur_str = ""
    /\ img \in ImageSizes
    /\ wh = <<>>
    /\ shot = EmptyDict /\ main_app = "" /\ text = <<>>

SpecResize == InitResize /\ [][NextResize]_vars

\* ------------------------------------------------ the overlay of a frame
\* SpecOverlay calls annotate_frame for one screenshot of a session, as
\* build_session_video does (session_monitor.py) and as build_annotated_video
\* does for the daily video (main.py, lines 362-386 and 279-331).  The text
\* drawn is the sequence of its lines.

\* The date of the given day after 1970-01-01, strftime("%Y-%m-%d")
DateOfDay(days) ==
    LET z == days + 719468
        era == z \div 146097
        doe == z - era * 146097
        yoe == (doe - doe \div 1460 + doe \div 36524 - doe \div 146096) \div 365
        doy == doe - (365 * yoe + yoe \div 4 - yoe \div 100)
        mp == (5 * doy + 2) \div 153
        d == doy - (153 * mp + 2) \div 5 + 1
        m == IF mp < 10 THEN mp + 3 ELSE mp - 9
        y == yoe + era * 400 + (IF m <= 2 THEN 1 ELSE 0)
    IN ToString(y) \o "-" \o TwoDigits(m) \o "-" \o TwoDigits(d)

\* ts_to_pkt(ts).strftime("%Y-%m-%d %H:%M")
PktDateTime(ts) ==
    LET local == ts + PktOffset
        secs == local % DaySeconds
    IN DateOfDay(local \div DaySeconds) \o " " \o TwoDigits(secs \div 3600)
       \o ":" \o TwoDigits((secs % 3600) \div 60)

\* main.py: format_pkt_timestamp_24(ts)
format_pkt_timestamp_24(ts) == PktDateTime(ts) \o " (PKT)"

\* A sequence of characters as a string
RECURSIVE Str(_)
Str(chars) == IF chars = <<>> THEN "" ELSE Head(chars) \o Str(Tail(chars))

\* One application of a screenshot: the i-th of the list is named app<i>;
\* `duration` and `fromScreen` may be missing
AppEntries(i) ==
    {[applicationName |-> "app" \o ToString(i)] @@ d @@ f :
        d \in {EmptyDict, [duration |-> 10], [duration |-> 20]},
        f \in {EmptyDict, [fromScreen |-> FALSE], [fromScreen |-> TRUE]}}

AppLists ==
    UNION {{f \in [1..n -> UNION {AppEntries(i) : i \in 1..n}] :
               \A i \in 1..n : f[i] \in AppEntries(i)}
           : n \in 0..MaxApps}

\* The screenshots annotated: `taken`, `activityLevel` and `applications`
\* may be missing
OverlayShots ==
    {[id |-> 1, activityId |-> "a1", url |-> "u"] @@ t @@ l @@ a :
        t \in {EmptyDict, [taken |-> 1764553440]},
        l \in {EmptyDict, [activityLevel |-> 0], [activityLevel |-> 88]},
        a \in {EmptyDict} \cup {[applications |-> apps] : apps \in AppLists}}

\* max_note_len = 80 (main.py)
MaxNoteLen == 80

\* The notes of the session: none, a short one, one longer than max_note_len
OverlayNotes ==
    {EmptyDict, [note |-> <<"q", "a">>], [note |-> [i \in 1..(MaxNoteLen + 1) |-> "x"]]}

\* a.get("duration", 0)
DurationKey(app) == IF "duration" \in DOMAIN app THEN app["duration"] ELSE 0

\* bool(a.get("fromScreen"))
FromScreen(app) == "fromScreen" \in DOMAIN app /\ app["fromScreen"]

\* key=lambda a: (bool(a.get("fromScreen")), a.get("duration", 0)):
\* the key of x is less than the key of y
KeyLess(x, y) ==
    \/ ~FromScreen(x) /\ FromScreen(y)
    \/ FromScreen(x) = FromScreen(y) /\ DurationKey(x) < DurationKey(y)

\* main.py: key=lambda a: a.get("duration", 0)
DurationLess(x, y) == DurationKey(x) < DurationKey(y)

\* max(apps, key=...): the first item no other item's key exceeds
MaxBy(apps, Less(_, _)) ==
    apps[CHOOSE i \in 1..Len(apps) :
            /\ \A j \in 1..Len(apps) : ~Less(apps[i], apps[j])
            /\ \A j \in 1..(i - 1) : Less(apps[j], apps[i])]

\* s.get("applications") or []
AppsOf(s) == IF "applications" \in DOMAIN s THEN s["applications"] ELSE <<>>

\* annotate_frame, lines 171-180: main_app ("" for None)
MainApp(s) ==
    IF AppsOf(s) = <<>> THEN ""
    ELSE MaxBy(AppsOf(s), KeyLess)["applicationName"]

\* annotate_frame(img, employee_name, note, screenshot), lines 160-195: the
\* lines of `text`
annotate_frame(employee_name, note, s) ==
    LET line1 == IF Truthy(s, "taken")
                 THEN employee_name \o " | " \o PktDateTime(s["taken"])
                 ELSE employee_name
        parts == (IF "activityLevel" \in DOMAIN s
                  THEN <<"Activity: " \o ToString(s["activityLevel"]) \o "%">>
                  ELSE <<>>)
                 \o (IF MainApp(s) # "" THEN <<"App: " \o MainApp(s)>> ELSE <<>>)
        line2 == IF Len(parts) = 2 THEN parts[1] \o " | " \o parts[2]
                 ELSE IF Len(parts) = 1 THEN parts[1] ELSE ""
        line3 == IF note # <<>> THEN "Note: " \o Str(note) ELSE ""
    IN SelectSeq(<<line1, line2, line3>>, LAMBDA line : line # "")

\* build_session_video, line 272: annotate_frame(img, employee_name, note, s)
\* with the note of run_once
Annotate ==
    /\ pc = "annotate"
    /\ main_app' = MainApp(shot)
    /\ text' = annotate_frame(SessName, NoteOf(activity), shot)
    /\ pc' = "annotated"
    /\ UNCHANGED <<doc, env, state, ei, nacts, ai, runs, lastExit, clean,
                   docAtLoad, hist, pipe, clock, active_duration, dur_str,
                   img, wh, shot, daily>>

\* main.py, build_annotated_video, lines 374-380: app_name
AppName(s) ==
    IF AppsOf(s) = <<>> THEN "unknown"
    ELSE MaxBy(AppsOf(s), DurationLess)["applicationName"]

\* main.py, annotate_frame(img, employee_name, time_str, note,
\* activity_level, app_name), lines 296-310: the lines of `text`
main_annotate_frame(employee_name, time_str, note, activity_level, app_name) ==
    LET level == IF activity_level = <<>> THEN 0 ELSE activity_level[1]
        app == IF app_name = "" THEN "unknown" ELSE app_name
        short == IF Len(note) > MaxNoteLen
                 THEN SubSeq(note, 1, MaxNoteLen - 3) \o <<".", ".", ".">>
                 ELSE note
        line1 == employee_name \o " | " \o time_str
        line2 == "Activity: " \o ToString(level) \o "% | App: " \o app
    IN IF short = <<>> THEN <<line1, line2>>
       ELSE <<line1, line2, "Note: " \o Str(short)>>

\* main.py, build_annotated_video, lines 362-405 for one screenshot: note,
\* app_name and time_str, then annotate_frame
AnnotateDaily ==
    /\ pc = "annotate"
    /\ main_app' = AppName(shot)
    /\ text' = main_annotate_frame(
                  SessName,
                  IF "taken" \in DOMAIN shot
                  THEN format_pkt_timestamp_24(shot["taken"]) ELSE "unknown time",
                  IF "note" \in DOMAIN activity THEN activity["note"] ELSE <<>>,
                  IF "activityLevel" \in DOMAIN shot
                  THEN <<shot["activityLevel"]>> ELSE <<>>,
                  AppName(shot))
    /\ pc' = "annotated_daily"
    /\ UNCHANGED <<doc, env, state, ei, nacts, ai, runs, lastExit, clean,
                   docAtLoad, hist, pipe, clock, active_duration, dur_str,
                   img, wh, shot, daily>>

NextOverlay == Annotate \/ AnnotateDaily

\* The image of a screenshot of the session is decoded and resized
InitOverlay ==
    /\ doc = NoFile /\ docAtLoad = NoFile
    /\ env = "full"
    /\ pc = "annotate"
    /\ obs = <<EmpKey(EMPLOYMENTS[1]), "a1">>
    /\ state = [sessions |->
                  (obs[1] :> (obs[2] :> [notified_start |-> TRUE,
                                         notified_end |-> FALSE]))]
    /\ ei = 1 /\ nacts = 1 /\ ai = 1
    /\ runs = 1
    /\ lastExit = "none"
    /\ clean = TRUE
    /\ startSent = 1 /\ endSent = 0 /\ pipelines = 1
    /\ accepted = {} /\ unsaved = {}
    /\ seenFrom = 1 /\ seenTo = 1
    /\ \E n \in OverlayNotes :
         activity = [activityId |-> "a1", from |-> 100, to |-> 160] @@ n
    /\ data = <<>> /\ screenshots = <<>> /\ screenshots_sorted = <<>>
    /\ si = 1 /\ frames = <<>> /\ downloads = <<>> /\ failed = {}
    /\ video_info = <<>> /\ media_id = "" /\ detected_end_ts = 0
    /\ calls = <<>>
    /\ ClockIdle
    /\ DailyIdle
    /\ active_duration = -1 /\ dur_str = ""
    /\ img = <<TargetWidth, 720>> /\ wh = <<1920, 1080>>
    /\ shot \in OverlayShots
    /\ main_app = "" /\ text = <<>>

SpecOverlay == InitOverlay /\ [][NextOverlay]_vars

\* ------------------------------------------ report.py, the timelapse video
\* SpecTimelapse calls build_timelapse_mp4 for one employee with any list of
\* up to MaxRecords records.  A record has a timestamp (an ISO string in the
\* source, here its rank in time: strings of one format compare as their
\* times do) and may have a screenshot_url, which may be empty.

\* The program outside the function: nothing of run_once is under way
OutsideRunOnce ==
    /\ doc = NoFile /\ docAtLoad = NoFile
    /\ env = "full"
    /\ obs = <<EmpKey(EMPLOYMENTS[1]), "a1">>
    /\ state = EmptyState
    /\ ei = 1 /\ nacts = 0 /\ ai = 1
    /\ runs = 0
    /\ lastExit = "none"
    /\ clean = TRUE
    /\ startSent = 0 /\ endSent = 0 /\ pipelines = 0
    /\ accepted = {} /\ unsaved = {}
    /\ seenFrom = 0 /\ seenTo = 0
    /\ PipeIdle
    /\ ClockIdle
    /\ CalcIdle

\* One record of fetch_today_entries
RecordFields ==
    {[timestamp |-> t] @@ u :
        t \in {1, 2},
        u \in {EmptyDict, [screenshot_url |-> ""], [screenshot_url |-> "u"]}}

\* The lists of records of one employee
RecordLists == UNION {[1..n -> RecordFields] : n \in 0..MaxRecords}

\* sorted() is stable: a record goes after those of the same timestamp
RECURSIVE InsertByTimestamp(_, _)
InsertByTimestamp(sortedSoFar, r) ==
    IF sortedSoFar = <<>> THEN <<r>>
    ELSE LET n == Len(sortedSoFar) IN
         IF sortedSoFar[n]["timestamp"] <= r["timestamp"]
         THEN Append(sortedSoFar, r)
         ELSE Append(InsertByTimestamp(SubSeq(sortedSoFar, 1, n - 1), r),
                     sortedSoFar[n])

\* sorted(records, key=lambda r: r["timestamp"])
RECURSIVE SortedByTimestamp(_)
SortedByTimestamp(rs) ==
    IF rs = <<>> THEN <<>>
    ELSE InsertByTimestamp(SortedByTimestamp(SubSeq(rs, 1, Len(rs) - 1)),
                           rs[Len(rs)])

\* f"{i:03d}"
ThreeDigits(n) ==
    IF n < 10 THEN "00" \o ToString(n)
    ELSE IF n < 100 THEN "0" \o ToString(n)
    ELSE ToString(n)

\* f"{i:03d}.jpg", the file name in emp_dir
ImgName(n) == ThreeDigits(n) \o ".jpg"

\* build_timelapse_mp4, lines 69-77: None without records, else the
\* directory and the sorted list
SortRecords ==
    /\ pc = "timelapse"
    /\ IF records = <<>>
       THEN pc' = "no_video" /\ UNCHANGED recs
       ELSE pc' = "images" /\ recs' = SortedByTimestamp(records)
    /\ ri' = 1
    /\ image_paths' = <<>>
    /\ UNCHANGED <<doc, env, state, ei, nacts, ai, runs, lastExit, clean,
                   docAtLoad, hist, pipe, clock, calc, records, summary>>

\* lines 79-88, the loop body for the record numbered ri: `continue` without
\* a url; else requests.get raises, or answers 200 and the image is written
\* under the record's number, or answers another status
FetchImage ==
    /\ pc = "images"
    /\ ri <= Len(recs)
    /\ IF ~TruthyStr(recs[ri], "screenshot_url")
       THEN /\ ri' = ri + 1
            /\ UNCHANGED <<pc, image_paths>>
       ELSE \E o \in {"200", "404", "raise"} :
              IF o = "raise"
              THEN /\ pc' = "raised"
                   /\ UNCHANGED <<ri, image_paths>>
              ELSE /\ ri' = ri + 1
                   /\ image_paths' = IF o = "200"
                                      THEN Append(image_paths, ImgName(ri))
                                      ELSE image_paths
                   /\ UNCHANGED pc
    /\ UNCHANGED <<doc, env, state, ei, nacts, ai, runs, lastExit, clean,
                   docAtLoad, hist, pipe, clock, calc, records, recs, summary>>

\* lines 90-111, after the loop: None without images, else ffmpeg is run on
\* the pattern %03d.jpg; subprocess.run(check=True) raises if it fails
RunEncoder ==
    /\ pc = "images"
    /\ ri > Len(recs)
    /\ IF image_paths = <<>>
       THEN pc' = "no_video"
       ELSE \E o \in {"ok", "raise"} :
              pc' = IF o = "ok" THEN "video" ELSE "raised"
    /\ UNCHANGED <<doc, env, state, ei, nacts, ai, runs, lastExit, clean,
                   docAtLoad, hist, pipe, clock, calc, report, summary>>

NextTimelapse == SortRecords \/ FetchImage \/ RunEncoder

InitTimelapse ==
    /\ OutsideRunOnce
    /\ pc = "timelapse"
    /\ records \in RecordLists
    /\ recs = <<>> /\ ri = 1 /\ image_paths = <<>>
    /\ SummaryIdle

SpecTimelapse == InitTimelapse /\ [][NextTimelapse]_vars

\* -------------------------------------------- main.py, the daily summary
\* SpecSummary calls build_activity_summary for one employee.  The day's
\* activities are some activities without `to` or without `from`, then
\* sessions with the note "b", then sessions without a note, the sessions
\* of a note from the latest to the earliest; the screenshots give the
\* first session with a note two activity levels.

\* MAX_SESSION_LINES = 40
MAX_SESSION_LINES == 40

\* The numbers of sessions without a note of a day
SessionCounts ==
    0..MaxDaySessions \cup ((MAX_SESSION_LINES - 2)..(MAX_SESSION_LINES + 1))

\* k activities of which the source gives only one end
Incomplete(k) ==
    [j \in 1..k |->
        IF j % 2 = 1 THEN [activityId |-> "i" \o ToString(j), from |-> 50]
        ELSE [activityId |-> "i" \o ToString(j), to |-> 70]]

\* n sessions of one minute and more, the latest first
NoteSessions(n, prefix, fields, base) ==
    [j \in 1..n |->
        [activityId |-> prefix \o ToString(j),
         from |-> base + 100 * (n - j),
         to |-> base + 100 * (n - j) + 60 + j] @@ fields]

DayActivityLists ==
    {Incomplete(k) \o NoteSessions(nb, "b", [note |-> <<"b">>], 10000)
                   \o NoteSessions(na, "a", EmptyDict, 20000) :
        k \in 0..MaxDaySessions, nb \in 0..MaxDaySessions, na \in SessionCounts}

DayScreenshotLists ==
    {<<>>,
     <<[activityId |-> "b1", activityLevel |-> 1],
       [activityId |-> "b1", activityLevel |-> 2],
       [activityLevel |-> 9], [activityId |-> "a1"]>>}

\* level_index.get(aid), lines 558-566 and 593: <<>> for None, else the
\* bucket of the screenshots of that activity that have a level
LevelStats(shots, aid) ==
    LET having == SelectSeq(shots, LAMBDA x : /\ "activityId" \in DOMAIN x
                                             /\ "activityLevel" \in DOMAIN x
                                             /\ x["activityId"] = aid)
    IN IF having = <<>> THEN <<>>
       ELSE <<[sum |-> Sum([j \in 1..Len(having) |-> having[j]["activityLevel"]]),
               count |-> Len(having)]>>

\* lines 583-602: the session of an activity with both ends
SessionOf(act, shots) ==
    LET stats == LevelStats(shots, Aid(act))
    IN [start |-> act["from"], end |-> act["to"],
        duration |-> ActiveDuration(act),
        avg_level |-> IF stats # <<>> /\ stats[1].count > 0
                      THEN <<round(stats[1].sum, stats[1].count)>> ELSE <<>>]

\* sessions_by_note.setdefault(note, []).append(session): the notes keep
\* the order in which they were first met
AddSession(byNote, note, session) ==
    IF \E j \in 1..Len(byNote) : byNote[j].note = note
    THEN [j \in 1..Len(byNote) |->
            IF byNote[j].note = note
            THEN [byNote[j] EXCEPT !.sessions = Append(@, session)]
            ELSE byNote[j]]
    ELSE Append(byNote, [note |-> note, sessions |-> <<session>>])

\* sorted() is stable: a session goes after those of the same start
RECURSIVE InsertByStart(_, _)
InsertByStart(sortedSoFar, x) ==
    IF sortedSoFar = <<>> THEN <<x>>
    ELSE LET n == Len(sortedSoFar) IN
         IF sortedSoFar[n].start <= x.start
         THEN Append(sortedSoFar, x)
         ELSE Append(InsertByStart(SubSeq(sortedSoFar, 1, n - 1), x),
                     sortedSoFar[n])

\* sorted(sessions, key=lambda s: s["start"])
RECURSIVE SortedByStart(_)
SortedByStart(ss) ==
    IF ss = <<>> THEN <<>>
    ELSE InsertByStart(SortedByStart(SubSeq(ss, 1, Len(ss) - 1)), ss[Len(ss)])

\* lines 637-647: the line of the session numbered idx
SessionLine(idx, x) ==
    [kind |-> "session", idx |-> idx,
     start |-> format_pkt_time(x.start), end |-> format_pkt_time(x.end),
     dur |-> format_duration(x.duration)]
    @@ (IF x.avg_level # <<>> THEN [avg |-> x.avg_level[1]] ELSE EmptyDict)

\* The lines that are note headers
NoteLines(ls) == SelectSeq(ls, LAMBDA l : l.kind = "note")

\* lines 553-555: the text for a day without activities, else the loops
StartSummary ==
    /\ pc = "summary"
    /\ IF day_activities = <<>>
       THEN pc' = "returned" /\ lines' = <<[kind |-> "no_activity"]>>
       ELSE pc' = "group" /\ lines' = <<>>
    /\ sa' = 1
    /\ UNCHANGED <<doc, env, state, ei, nacts, ai, runs, lastExit, clean,
                   docAtLoad, hist, pipe, clock, calc, report, day_activities,
                   day_screenshots, sessions_by_note, earliest, latest,
                   total_duration, printed_sessions>>

\* lines 574-603, the loop body for activities[sa]
GroupActivity ==
    /\ pc = "group"
    /\ sa <= Len(day_activities)
    /\ sa' = sa + 1
    /\ LET act == day_activities[sa] IN
       IF "from" \notin DOMAIN act \/ "to" \notin DOMAIN act
       THEN UNCHANGED <<sessions_by_note, earliest, latest, total_duration>>
       ELSE /\ total_duration' = total_duration + ActiveDuration(act)
            /\ earliest' = IF earliest = <<>> \/ act["from"] < earliest[1]
                           THEN <<act["from"]>> ELSE earliest
            /\ latest' = IF latest = <<>> \/ act["to"] > latest[1]
                         THEN <<act["to"]>> ELSE latest
            /\ sessions_by_note' =
                 AddSession(sessions_by_note, NoteOf(act),
                            SessionOf(act, day_screenshots))
    /\ UNCHANGED <<doc, env, pc, state, ei, nacts, ai, runs, lastExit, clean,
                   docAtLoad, hist, pipe, clock, calc, report, day_activities,
                   day_screenshots, printed_sessions, lines>>

\* lines 605-621, after the loop: the header, and the Overall line if a
\* session was found
HeaderLines ==
    /\ pc = "group"
    /\ sa > Len(day_activities)
    /\ lines' = <<[kind |-> "header"]>>
                 \o (IF earliest # <<>> /\ latest # <<>>
                     THEN <<[kind |-> "overall",
                             count |-> Len(day_activities),
                             start |-> format_pkt_time(earliest[1]),
                             end |-> format_pkt_time(latest[1]),
                             total |-> format_duration(total_duration)]>>
                     ELSE <<>>)
    /\ printed_sessions' = 0
    /\ pc' = "notes"
    /\ UNCHANGED <<doc, env, state, ei, nacts, ai, runs, lastExit, clean,
                   docAtLoad, hist, pipe, clock, calc, report, day_activities,
                   day_screenshots, sa, sessions_by_note, earliest, latest,
                   total_duration>>

\* lines 624-648, the loop body for the next note: its header, then its
\* sessions by start until MAX_SESSION_LINES session lines are printed
NoteBreakdown ==
    /\ pc = "notes"
    /\ Len(NoteLines(lines)) < Len(sessions_by_note)
    /\ LET item == sessions_by_note[Len(NoteLines(lines)) + 1]
           sessions_sorted == SortedByStart(item.sessions)
           note_duration ==
               Sum([j \in 1..Len(sessions_sorted) |-> sessions_sorted[j].duration])
           room == MAX_SESSION_LINES - printed_sessions
           shown == IF Len(sessions_sorted) < room
                    THEN Len(sessions_sorted) ELSE room
       IN /\ lines' = Append(lines, [kind |-> "note", note |-> item.note,
                                     count |-> Len(sessions_sorted),
                                     total |-> format_duration(note_duration)])
                       \o [j \in 1..shown |-> SessionLine(j, sessions_sorted[j])]
          /\ printed_sessions' = printed_sessions + shown
    /\ UNCHANGED <<doc, env, pc, state, ei, nacts, ai, runs, lastExit, clean,
                   docAtLoad, hist, pipe, clock, calc, report, day_activities,
                   day_screenshots, sa, sessions_by_note, earliest, latest,
                   total_duration>>

\* lines 621 and 650-654: total_sessions = len(activities), the line of the
\* sessions not printed, and the return
RemainingLine ==
    /\ pc = "notes"
    /\ Len(NoteLines(lines)) = Len(sessions_by_note)
    /\ LET total_sessions == Len(day_activities) IN
       lines' = IF printed_sessions < total_sessions
                THEN Append(lines, [kind |-> "more",
                                    remaining |-> total_sessions - printed_sessions])
                ELSE lines
    /\ pc' = "returned"
    /\ UNCHANGED <<doc, env, state, ei, nacts, ai, runs, lastExit, clean,
                   docAtLoad, hist, pipe, clock, calc, report, day_activities,
                   day_screenshots, sa, sessions_by_note, earliest, latest,
                   total_duration, printed_sessions>>

NextSummary ==
    StartSummary \/ GroupActivity \/ HeaderLines \/ NoteBreakdown \/ RemainingLine

InitSummary ==
    /\ OutsideRunOnce
    /\ ReportIdle
    /\ pc = "summary"
    /\ day_activities \in DayActivityLists
    /\ day_screenshots \in DayScreenshotLists
    /\ sa = 1
    /\ sessions_by_note = <<>> /\ earliest = <<>> /\ latest = <<>>
    /\ total_duration = 0 /\ printed_sessions = 0 /\ lines = <<>>

SpecSummary == InitSummary /\ [][NextSummary]_vars

\* ------------------------------------------------ polls on a schedule
\* SpecClock runs run_once at a fixed interval while one session of the
\* first subject is open at the source and closes between two polls.  Every
\* call to the source and to the dispatcher succeeds.

\* 00:00 UTC of the day of ts: dt.datetime(now_utc.year, now_utc.month,
\* now_utc.day, 0, 0, tzinfo=utc).timestamp()
StartOfDay(ts) == (ts \div DaySeconds) * DaySeconds

\* The body of the GetActivities request run_once sends at time ts
Window(ts) == [from |-> StartOfDay(ts), to |-> ts + Cushion]

\* The source answers the activities that lie, in part at least, in the window
\* asked for: the session, with `to` once it has closed
SourceActivities(w) ==
    IF began <= w.to /\ (ended = 0 \/ ended >= w.from)
    THEN <<[activityId |-> obs[2], from |-> began]
           @@ (IF ended # 0 THEN [to |-> ended] ELSE EmptyDict)>>
    ELSE <<>>

\* The session closes this many seconds before the poll that follows
CloseBefore == {PollInterval \div 3, 2 * (PollInterval \div 3)}

\* The interval between two runs passes; the session may close during it
Wait ==
    /\ pc = "idle"
    /\ runs < MaxTicks
    /\ now' = now + PollInterval
    /\ \/ UNCHANGED <<began, ended>>
       \/ /\ ended = 0
          /\ \E d \in CloseBefore : ended' = now' - d
          /\ UNCHANGED began
    /\ pc' = "poll"
    /\ UNCHANGED <<doc, env, state, ei, nacts, ai, runs, lastExit, clean,
                   docAtLoad, hist, pipe, calc, daily>>

\* run_once at the time `now`, every call succeeding: load_state, the
\* activities of today's window for each subject, both transitions,
\* save_state
PollOnSchedule ==
    /\ pc = "poll"
    /\ runs' = runs + 1
    /\ docAtLoad' = doc
    /\ LET loaded == load_state(doc).val
           withEmps == [k \in EmpKeys \ DOMAIN loaded["sessions"] |-> EmptyDict]
                       @@ loaded["sessions"]
           activities == SourceActivities(Window(now))
       IN IF activities = <<>>
          THEN state' = [sessions |-> withEmps]
          ELSE LET act == activities[1]
                   sessions_for_emp ==
                       SetDefault(withEmps[obs[1]], act["activityId"], DefaultFlags)
               IN \E r \in ActivityResults(act, sessions_for_emp[act["activityId"]], env) :
                    /\ r.log.exc = "none"
                    /\ r.log.start \in {"no", "accepted"}
                    /\ r.log.end \in {"no", "accepted"}
                    /\ state' = [sessions |->
                                   SetItem(withEmps, obs[1],
                                       SetItem(sessions_for_emp, act["activityId"], r.sess))]
    /\ doc' = save_state(state')
    /\ pc' = "idle"
    /\ lastExit' = "ok"
    /\ UNCHANGED <<env, ei, nacts, ai, clean, hist, pipe, clock, calc, daily>>

NextClock == Wait \/ PollOnSchedule

\* The first run_once of a new deployment is due; midnight UTC lies between
\* two of the polls to come, and the session began shortly before the first
InitClock ==
    /\ doc = NoFile /\ docAtLoad = NoFile
    /\ env = "full"
    /\ pc = "poll"
    /\ state = EmptyState
    /\ ei = 1 /\ nacts = 0 /\ ai = 1
    /\ runs = 0
    /\ lastExit = "none"
    /\ clean = TRUE
    /\ obs = <<EmpKey(EMPLOYMENTS[1]), "a1">>
    /\ startSent = 0 /\ endSent = 0 /\ pipelines = 0
    /\ accepted = {} /\ unsaved = {}
    /\ seenFrom = 0 /\ seenTo = 0
    /\ PipeIdle
    /\ CalcIdle
    /\ DailyIdle
    /\ \E n \in 1..MaxTicks :
         now = DaySeconds - n * PollInterval + PollInterval \div 2
    /\ began = now - PollInterval \div 2
    /\ ended = 0

\* cron starts run_once at every interval, and a run_once whose calls
\* succeed returns
SpecClock ==
    InitClock /\ [][NextClock]_vars /\ WF_vars(Wait) /\ WF_vars(PollOnSchedule)

\* ------------------------------------------------------------ vocabulary
\* The flag k of session x = <<subject, session>> in a state dict: TRUE only
\* when the entry and the key exist and the value is true
MemFlag(st, x, k) ==
    /\ "sessions" \in DOMAIN st
    /\ x[1] \in DOMAIN st["sessions"]
    /\ x[2] \in DOMAIN st["sessions"][x[1]]
    /\ k \in DOMAIN st["sessions"][x[1]][x[2]]
    /\ st["sessions"][x[1]][x[2]][k]

HasEntry(st, x) ==
    /\ "sessions" \in DOMAIN st
    /\ x[1] \in DOMAIN st["sessions"]
    /\ x[2] \in DOMAIN st["sessions"][x[1]]

\* The flag as the next load_state would read it from the file
PersistedFlag(file, x, k) == MemFlag(load_state(file).val, x, k)

\* Every (subject, session) a document or a poll of the model can name
AllSessions == EmpKeys \X (ActivityIds \cup {"a0"})

\* The file holds no complete JSON document
BadFile(file) == file = NoFile \/ file = Unreadable \/ ~json_load(file).ok

\* ------------------------------------------------------------------ claims

\* C1 (exactly-once start): while every run_once so far has returned
\* normally, each loading the document the previous one saved, the Start
\* notification of a session has been sent at most once, and exactly once
\* as soon as the session has been processed with `from` present - however
\* often it is polled, and also when it occurs twice in one poll's list.
ExactlyOnceStart ==
    clean => /\ startSent <= 1
             /\ (seenFrom >= 1 => startSent = 1)

\* Witness C1: two completed runs, the session sighted more than once with
\* `from` present, its flag already persisted when the second run loaded
ExactlyOnceStartWitness ==
    /\ clean /\ runs = 2 /\ pc = "idle" /\ lastExit = "ok"
    /\ seenFrom = 2 /\ startSent = 1
    /\ PersistedFlag(docAtLoad, obs, "notified_start")

\* C2 (exactly-once end): while every run_once so far has returned normally,
\* the End notification of a session has been dispatched at most once and its
\* screenshots fetched at most once, and exactly once as soon as the session
\* has been processed with `to` present; later polls of the ended session
\* add no End dispatch and no screenshot fetch.
ExactlyOnceEnd ==
    clean => /\ endSent <= 1
             /\ pipelines <= 1
             /\ (seenTo >= 1 => endSent = 1 /\ pipelines = 1)

\* Witness C2: the ended session polled again, with `to` present, by a run
\* that found notified_end persisted
ExactlyOnceEndWitness ==
    /\ clean /\ runs = 2 /\ pc = "idle" /\ lastExit = "ok"
    /\ seenTo = 2 /\ endSent = 1 /\ pipelines = 1
    /\ PersistedFlag(docAtLoad, obs, "notified_end")

\* C3 (monotonic flags): within a run no flag of the in-memory state goes
\* from true to false and no session entry disappears; load_state hands every
\* persisted true flag to the run, and a completed save_state persists every
\* true flag of the in-memory state - so across load / run / save cycles no
\* persisted flag goes back to false.
MonotonicStep ==
    /\ (pc # "idle" /\ pc' # "idle" /\ state' # state) =>
          \A x \in AllSessions :
            /\ HasEntry(state, x) => HasEntry(state', x)
            /\ \A k \in FlagKeys : MemFlag(state, x, k) => MemFlag(state', x, k)
    /\ (pc = "idle" /\ pc' # "idle") =>
          LET loaded == load_state(doc).val IN
          \A x \in AllSessions : \A k \in FlagKeys :
            MemFlag(loaded, x, k) => MemFlag(state', x, k)
    /\ (pc = "write" /\ pc' = "idle" /\ lastExit' = "ok") =>
          LET before == load_state(docAtLoad).val
              after == load_state(doc').val
          IN \A x \in AllSessions : \A k \in FlagKeys :
               (MemFlag(state, x, k) \/ MemFlag(before, x, k)) => MemFlag(after, x, k)

DurableOnlyAfterCycle ==
    /\ pc \in {"save", "write"} => (ei = Len(EMPLOYMENTS) + 1 /\ ai > nacts)
    /\ \A k \in unsaved : ~PersistedFlag(doc, obs, k)

RedetectStep ==
    (pc = "idle" /\ pc' = "poll") => \A k \in unsaved : ~MemFlag(state', obs, k)

AtLeastOnceDurability == []DurableOnlyAfterCycle /\ [][RedetectStep]_vars

\* Witness C4: the first run dispatched the Start and ended without saving
\* (the second found no file); the second dispatched it again and saved
AtLeastOnceDurabilityWitness ==
    /\ runs = 2 /\ pc = "idle" /\ lastExit = "ok" /\ docAtLoad = NoFile
    /\ startSent = 2
    /\ PersistedFlag(doc, obs, "notified_start")

\* C5 (source-call failure isolation), as claimed: a failing GetActivities
\* call for one subject does not end the run - the other subjects are
\* processed and save_state is reached.
SourceFailureIsolated == lastExit # "source"

\* C6 (no silently lost notification), as claimed: a flag persisted as true
\* implies that the dispatcher accepted a notification for that transition.
NoSilentLoss ==
    \A k \in FlagKeys : PersistedFlag(doc, obs, k) => k \in accepted

\* C7 (load failure is never fatal): when the run found the file missing,
\* unreadable or unparsable, load_state returned the empty state and the run
\* does not end by an exception of load_state or of the state's shape.
LoadFailureNotFatal ==
    (runs >= 1 /\ BadFile(docAtLoad)) =>
        /\ lastExit \notin {"JSONDecodeError", "KeyError"}
        /\ (pc = "poll" /\ ei = 1) => state = EmptyState

\* Witness C7: a run that found a file it could not read or parse went
\* through detection (a Start was sent) and saved
LoadFailureNotFatalWitness ==
    /\ runs = 1 /\ pc = "idle" /\ lastExit = "ok"
    /\ docAtLoad # NoFile /\ BadFile(docAtLoad)
    /\ startSent = 1
    /\ PersistedFlag(doc, obs, "notified_start")

\* C8 (missing keys default to false), as claimed: a document without the
\* sessions mapping, or with a session entry without one of its flags, does
\* not make the run fail.
MissingKeysDefault == lastExit # "KeyError"

\* C9 (atomic save), as claimed: whenever the process has stopped, a file that
\* held a complete document when the run loaded it still holds that document,
\* or holds a complete new one.
AtomicSave ==
    (pc = "idle" /\ json_load(docAtLoad).ok) =>
        (doc = docAtLoad \/ json_load(doc).ok)

\* C10 (state round-trip): after save_state, load_state yields the in-memory
\* state that was saved, and saving what was loaded and loading it again
\* yields the same state.
StateRoundTrip ==
    (pc = "idle" /\ lastExit = "ok") =>
        /\ ~load_state(doc).raised
        /\ load_state(doc).val = state
        /\ load_state(save_state(load_state(doc).val)).val = load_state(doc).val

\* Witness C10: the saved state holds a session of an earlier day next to the
\* one the run ended
StateRoundTripWitness ==
    /\ pc = "idle" /\ lastExit = "ok"
    /\ HasEntry(state, <<EmpKey(EMPLOYMENTS[1]), "a0">>)
    /\ MemFlag(state, <<EmpKey(EMPLOYMENTS[1]), "a1">>, "notified_end")
    /\ HasEntry(state, <<EmpKey(EMPLOYMENTS[2]), "a1">>)

\* ------------------------------------------- vocabulary of SpecSession
\* This run's calls of the functions fns, in call order
CallsOf(fns) == SelectSeq(calls, LAMBDA c : c.fn \in fns)

\* This run's Start texts and End texts
StartTexts == SelectSeq(calls, LAMBDA c : c.fn = "send_text" /\ c.ev = "start")

EndTexts == SelectSeq(calls, LAMBDA c : c.fn = "send_text" /\ c.ev = "end")

\* The run found a Start event: a start time, and the Start flag not yet
\* persisted
StartEvent ==
    /\ runs >= 1
    /\ Aid(activity) = obs[2]
    /\ Truthy(activity, "from")
    /\ ~PersistedFlag(docAtLoad, obs, "notified_start")

\* The run found an End event: an end time, and the End flag not yet persisted
EndEvent ==
    /\ runs >= 1
    /\ Aid(activity) = obs[2]
    /\ Truthy(activity, "to")
    /\ ~PersistedFlag(docAtLoad, obs, "notified_end")

\* The loop body of the session has been left without an exception
BodyDone == pc = "rest" \/ (pc = "idle" /\ lastExit \in {"ok", "source"})

\* The screenshot of this run's list with the given id
ShotById(id) == CHOOSE s \in {screenshots[i] : i \in 1..Len(screenshots)} : s["id"] = id

\* s comes before t in capture time, or at the same time and earlier in the
\* source's answer (ids are places in the answer)
Before(s, t) ==
    \/ TakenKey(s) < TakenKey(t)
    \/ TakenKey(s) = TakenKey(t) /\ s["id"] < t["id"]

HasUrl(s) == TruthyStr(s, "url")

\* C11 (End dispatch policy): a run makes at most one dispatcher send call
\* for the End of the session, and exactly one when the End branch runs to
\* its end: send_video with the handle upload returned when a video was
\* built and upload returned one (and no End text), else one send_text and
\* no send_video; whatsapp_upload_media is called at most once, and only
\* with a video.
EndDispatchPolicy ==
    LET videos == CallsOf({"send_video"})
        uploads == CallsOf({"upload_media"})
    IN /\ Len(videos) + Len(EndTexts) <= 1
       /\ Len(uploads) <= 1
       /\ uploads # <<>> => video_info # <<>>
       /\ videos # <<>> =>
            /\ uploads # <<>> /\ media_id # ""
            /\ videos[1].media = media_id
       /\ EndTexts # <<>> => media_id = ""
       /\ (EndEvent /\ BodyDone) =>
            /\ Len(videos) + Len(EndTexts) = 1
            /\ videos # <<>> <=> (video_info # <<>> /\ media_id # "")

\* Witness C11 (Scenario E): a video was built, the upload returned no
\* handle, the run sent the fallback text and no video, and saved
EndDispatchPolicyWitness ==
    /\ pc = "idle" /\ lastExit = "ok"
    /\ video_info # <<>> /\ media_id = ""
    /\ CallsOf({"upload_media"}) # <<>>
    /\ CallsOf({"send_video"}) = <<>>
    /\ Len(EndTexts) = 1 /\ EndTexts[1].msg.verb = "FINISHED"

\* C12 (media upload failure is never fatal), as claimed: no failure of
\* the upload of a built video ends the run.
UploadFailureNotFatal == lastExit # "upload"

\* C13 (no-artifact fallback): when the End branch has run without a video
\* - no screenshots, or no screenshot gave a frame - there was no upload and
\* no send_video, exactly one text with the subject's display name, the note
\* and the formatted active duration was sent, and notified_end is set; a
\* pipeline without a frame does not raise.
NoArtifactFallback ==
    /\ (EndEvent /\ BodyDone /\ video_info = <<>>) =>
         /\ CallsOf({"upload_media", "send_video"}) = <<>>
         /\ Len(EndTexts) = 1
         /\ EndTexts[1].msg =
              [verb |-> "finished", name |-> Names[1], note |-> NoteOf(activity),
               dur |-> format_duration(ActiveDuration(activity))]
         /\ lastExit # "source" => MemFlag(state, obs, "notified_end")
    /\ (pc = "idle" /\ lastExit = "encoder") =>
         \E i \in 1..Len(downloads) : downloads[i] \notin failed

\* Witness C13 (Scenario D): every screenshot of a non-empty list was
\* requested and failed; the text was sent and notified_end saved
NoArtifactFallbackWitness ==
    /\ pc = "idle" /\ lastExit = "ok"
    /\ Len(downloads) = MaxShots
    /\ \A i \in 1..Len(downloads) : downloads[i] \in failed
    /\ Len(EndTexts) = 1
    /\ PersistedFlag(doc, obs, "notified_end")

\* C14 (Start notifications are text only): a run with a Start event has
\* made exactly one Start send_text call once the Start branch is passed,
\* a run without one none; when the Start branch is left nothing else has
\* been called or fetched, and every screenshot fetch, download, upload or
\* send_video of a run belongs to an End event.
StartTextOnly ==
    /\ (StartEvent /\ pc # "start") =>
         StartTexts = <<[fn |-> "send_text", ev |-> "start",
                         msg |-> [verb |-> "STARTED", name |-> Names[1],
                                  note |-> NoteOf(activity)]]>>
    /\ ~StartEvent => StartTexts = <<>>
    /\ pc = "end" =>
         /\ calls = StartTexts
         /\ downloads = <<>> /\ video_info = <<>> /\ media_id = ""
    /\ (CallsOf({"get_screenshots", "upload_media", "send_video"}) # <<>>
        \/ downloads # <<>>) => EndEvent
    /\ (runs >= 1 /\ ~EndEvent) => calls = StartTexts

\* Witness C14: a run with a Start event and no End event has returned; its
\* only call was the Start text
StartTextOnlyWitness ==
    /\ pc = "idle" /\ lastExit = "ok"
    /\ StartEvent /\ ~EndEvent
    /\ Len(calls) = 1 /\ calls[1].fn = "send_text" /\ calls[1].ev = "start"
    /\ MemFlag(state, obs, "notified_start")

\* C15 (Scenario A, open sessions): a run that finds the session without end
\* time does not enter the End branch - no screenshot fetch, download,
\* upload or End message; while no poll has shown an end time there has been
\* no End dispatch and no fetch at all; and when such a run has returned
\* and the start time was present, the session's flags are
\* {notified_start: true, notified_end: false}, with one Start sent so far
\* if every run returned.
OpenSessionScenario ==
    /\ (runs >= 1 /\ ~Truthy(activity, "to")) =>
         /\ pc \notin {"shots", "build", "frame", "upload", "send"}
         /\ CallsOf({"get_screenshots", "upload_media", "send_video"}) = <<>>
         /\ EndTexts = <<>> /\ downloads = <<>>
    /\ seenTo = 0 => (endSent = 0 /\ pipelines = 0)
    /\ (pc = "idle" /\ lastExit = "ok" /\ seenTo = 0
           /\ Aid(activity) = obs[2] /\ Truthy(activity, "from")) =>
         /\ SessState = [notified_start |-> TRUE, notified_end |-> FALSE]
         /\ PersistedFlag(doc, obs, "notified_start")
         /\ ~PersistedFlag(doc, obs, "notified_end")
         /\ clean => startSent = 1

\* Witness C15: the open session polled twice; one Start, no End
OpenSessionScenarioWitness ==
    /\ pc = "idle" /\ lastExit = "ok" /\ clean /\ runs = 2
    /\ seenFrom = 2 /\ seenTo = 0
    /\ startSent = 1 /\ endSent = 0 /\ pipelines = 0
    /\ SessState = [notified_start |-> TRUE, notified_end |-> FALSE]

\* C16 (Scenario B, pipeline invoked once): the list build_session_video
\* receives holds all and only the screenshots of the source's answer whose
\* activityId is the session's, in the answer's order; a run fetches the
\* screenshots at most once, only for an End event, and once when the End
\* branch has run; a run that found notified_start persisted sends no Start;
\* and while every run returned, the screenshots have been fetched once as
\* soon as a run with an end time has returned, and never twice.
PipelineOnce ==
    /\ pc = "build" =>
         /\ \A i \in 1..Len(data) :
              (\E j \in 1..Len(screenshots) : screenshots[j] = data[i])
              <=> ("activityId" \in DOMAIN data[i]
                   /\ data[i]["activityId"] = activity["activityId"])
         /\ \A i, j \in 1..Len(screenshots) :
              i < j => screenshots[i]["id"] < screenshots[j]["id"]
    /\ Len(CallsOf({"get_screenshots"})) <= 1
    /\ CallsOf({"get_screenshots"}) # <<>> => EndEvent
    /\ (EndEvent /\ BodyDone) =>
         CallsOf({"get_screenshots"}) =
             <<[fn |-> "get_screenshots", id |-> activity["activityId"]]>>
    /\ (runs >= 1 /\ PersistedFlag(docAtLoad, obs, "notified_start")) =>
         StartTexts = <<>>
    /\ clean => /\ pipelines <= 1
                /\ (pc = "idle" /\ seenTo >= 1) => pipelines = 1

\* Witness C16: the second poll finds the session, whose Start is persisted,
\* closed; the source's answer holds a screenshot of another session, and
\* the filtered list is about to be built into the video
PipelineOnceWitness ==
    /\ pc = "build" /\ runs = 2 /\ clean
    /\ PersistedFlag(docAtLoad, obs, "notified_start")
    /\ StartTexts = <<>>
    /\ pipelines = 1
    /\ Len(data) = MaxShots /\ Len(screenshots) = MaxShots - 1

\* C17 (independent transitions), as claimed: the End transition of a closed
\* session completes also when the activity has no start time - the run does
\* not end in `end_ts - start_ts`.
IndependentTransitions == lastExit # "TypeError"

\* C18 (bounded detection latency), as claimed: with polls at a fixed
\* interval and every call succeeding, a session that has closed at the
\* source is End-notified by the first poll after it closed - whenever a
\* poll has returned with the session closed, its End flag is saved.
NotifiedByNextPoll ==
    (pc = "idle" /\ lastExit = "ok" /\ ended # 0 /\ ended <= now) =>
        PersistedFlag(doc, obs, "notified_end")

\* C19 (frame ordering): the frames are in the order of capture time, those
\* of equal time in the order of the source's answer, whichever screenshots
\* failed; the downloads were requested one per screenshot in the same
\* order, each frame from a download.
FrameOrdering ==
    /\ \A i, j \in 1..Len(frames) : i < j => Before(frames[i], frames[j])
    /\ pc = "frame" =>
         /\ \A i, j \in 1..Len(downloads) :
              i < j => Before(ShotById(downloads[i]), ShotById(downloads[j]))
         /\ \A i \in 1..Len(frames) :
              \E j \in 1..Len(downloads) : downloads[j] = frames[i]["id"]
         /\ Len(downloads) <= si - 1

\* Witness C19: the loop is done; the source's answer had the later
\* screenshot first, and both are frames, the earlier first
FrameOrderingWitness ==
    /\ pc = "frame" /\ si > Len(screenshots_sorted)
    /\ Len(frames) = 2
    /\ frames[1]["id"] > frames[2]["id"]
    /\ TakenKey(frames[1]) < TakenKey(frames[2])

\* C20 (per-screenshot failure isolation): no failure of a screenshot ends
\* the run, and in the loop every screenshot gone through that has a url has
\* been requested, and each of them that did not fail is a frame - also
\* after a screenshot that failed or had no url.
PerScreenshotIsolation ==
    /\ lastExit \notin FrameFailures
    /\ pc = "frame" =>
         LET done == SubSeq(screenshots_sorted, 1, si - 1)
             withUrl == SelectSeq(done, HasUrl)
         IN /\ downloads = [i \in 1..Len(withUrl) |-> withUrl[i]["id"]]
            /\ frames = SelectSeq(withUrl, LAMBDA s : s["id"] \notin failed)
            /\ \A id \in failed : \E i \in 1..Len(downloads) : downloads[i] = id

\* Witness C20: the first screenshot of the sorted list failed, the second
\* is the video's only frame
PerScreenshotIsolationWitness ==
    /\ pc = "frame" /\ si > Len(screenshots_sorted)
    /\ Len(screenshots_sorted) = 2
    /\ screenshots_sorted[1]["id"] \in failed
    /\ frames = <<screenshots_sorted[2]>>

\* The ids of a list of screenshot ids, as a set
IdSet(ids) == {ids[i] : i \in 1..Len(ids)}

\* C21 (artifact existence and frame count): when build_session_video
\* returns, it returns no video if there are no screenshots or no screenshot
\* gave a frame; with frames it returns a video, or none when the video
\* writer could not be created; and the frame count of a video is the number
\* of frames, which is at least one, the number of screenshots requested
\* that did not fail, and at most the number of screenshots given.
ArtifactStep ==
    /\ (pc = "build" /\ pc' = "send") =>
         (screenshots = <<>> /\ video_info' = <<>>)
    /\ (pc = "frame" /\ pc' \in {"send", "upload"}) =>
         /\ frames = <<>> => (video_info' = <<>> /\ pc' = "send")
         /\ (pc' = "upload") <=> (video_info' # <<>>)
         /\ video_info' # <<>> =>
              /\ video_info'[1].frame_count = Len(frames)
              /\ Len(frames) >= 1
              /\ Len(frames) = Cardinality(IdSet(downloads) \ failed)
              /\ Len(frames) <= Len(screenshots)

ArtifactIffFramesStep ==
    (pc = "frame" /\ pc' \in {"send", "upload"}) =>
        ((video_info' = <<>>) <=> (frames = <<>>))

AverageLevelStep ==
    (pc = "frame" /\ pc' = "upload") =>
        LET levels == Levels(screenshots)
            n == Len(levels)
            avg == video_info'[1].avg_level
        IN /\ avg = <<>> <=> \A i \in 1..Len(screenshots) :
                                "activityLevel" \notin DOMAIN screenshots[i]
           /\ avg # <<>> =>
                /\ 2 * n * avg[1] - n <= 2 * Sum(levels)
                /\ 2 * Sum(levels) <= 2 * n * avg[1] + n
                /\ (2 * Sum(levels) \in {2 * n * avg[1] - n, 2 * n * avg[1] + n})
                      => avg[1] % 2 = 0

ShownLevel ==
    \A i \in 1..Len(calls) :
        calls[i].fn = "send_video" =>
            /\ "avg" \in DOMAIN calls[i].msg <=> video_info[1].avg_level # <<>>
            /\ "avg" \in DOMAIN calls[i].msg =>
                  calls[i].msg["avg"] = video_info[1].avg_level[1]

AverageActivityLevel == [][AverageLevelStep]_vars /\ []ShownLevel

\* Witness C22: the loop is done with one frame; the screenshot that failed
\* has the level 0 and the frame's screenshot the level 1, and the function
\* is about to return the average 0
AverageActivityLevelWitness ==
    /\ pc = "frame" /\ si > Len(screenshots_sorted)
    /\ Len(frames) = 1 /\ Cardinality(failed) = 1
    /\ \E i, j \in 1..Len(screenshots) :
         /\ screenshots[i]["id"] \in failed
         /\ "activityLevel" \in DOMAIN screenshots[i]
         /\ screenshots[i]["activityLevel"] = 0
         /\ frames[1] = screenshots[j]
         /\ "activityLevel" \in DOMAIN screenshots[j]
         /\ screenshots[j]["activityLevel"] = 1
    /\ BuildReturn(screenshots, frames).avg_level = <<0>>

\* C22 as claimed: the average of a returned video is the mean of the
\* levels present.
AverageIsMeanStep ==
    (pc = "frame" /\ pc' = "upload" /\ Levels(screenshots) # <<>>) =>
        video_info'[1].avg_level[1] * Len(Levels(screenshots))
            = Sum(Levels(screenshots))

AverageIsMean == [][AverageIsMeanStep]_vars

\* A number of minutes below 60 in two digits
Digits2(n) == ToString(n \div 10) \o ToString(n % 10)

\* C23 (duration formatting): the active duration is end time - start time,
\* and 0 when that is negative; format_duration of it, and of the difference
\* itself, is "<h>h <mm>m" with the minutes in two digits when the clamped
\* value is 3600 or more and "<m>m" otherwise, the seconds cut off: "0m"
\* for 0, for 59 and for a negative difference, "1h 01m" for 3661.
DurationFormatting ==
    LET diff == activity["to"] - activity["from"]
        clamped == IF diff >= 0 THEN diff ELSE 0
        hours == clamped \div 3600
        minutes == (clamped - 3600 * hours) \div 60
        expected == IF clamped >= 3600
                    THEN ToString(hours) \o "h " \o Digits2(minutes) \o "m"
                    ELSE ToString(minutes) \o "m"
    IN /\ pc \in {"dur", "formatted"} => active_duration = clamped
       /\ pc = "formatted" =>
            /\ dur_str = expected
            /\ format_duration(diff) = expected
            /\ diff <= 59 => dur_str = "0m"
            /\ diff = 3661 => dur_str = "1h 01m"

\* Witness C23: a session of 3661 seconds has been formatted as "1h 01m"
DurationFormattingWitness ==
    /\ pc = "formatted"
    /\ activity["to"] - activity["from"] = 3661
    /\ dur_str = "1h 01m"

\* C24 (the frame pipeline has no effect on the notification state): no step
\* of fetch_screenshots_for_activity or build_session_video changes the
\* state dict or the state file, whatever the step's outcome (when the run
\* ends by an exception the dict is lost, the file stays as it is); the
\* dict changes only where run_once loads it, sets a flag after a send or
\* adds a subject's mapping; so when the pipeline has run, the session's
\* flags are those the End branch was entered with, notified_end false.
NoFlagEffectStep ==
    /\ pc \in {"shots", "build", "frame"} =>
         /\ doc' = doc
         /\ pc' # "idle" => state' = state
    /\ (state' # state /\ pc' # "idle") => pc \in {"idle", "start", "send", "rest"}

FlagsAsEntered ==
    pc \in {"shots", "build", "frame", "upload", "send"} =>
        /\ ~MemFlag(state, obs, "notified_end")
        /\ ~PersistedFlag(doc, obs, "notified_end")
        /\ doc = docAtLoad

PipelineNoFlagEffect == [][NoFlagEffectStep]_vars /\ []FlagsAsEntered

\* Witness C24: the pipeline has run, a screenshot failed and another gave
\* a frame, a video was built; the flags are as the End branch found them
PipelineNoFlagEffectWitness ==
    /\ pc = "upload" /\ video_info # <<>>
    /\ failed # {}
    /\ SessState = [notified_start |-> TRUE, notified_end |-> FALSE]

\* C28 (downscale only), as claimed: the frame of an image of width w and
\* height h has the width min(w, T); an image with w <= T keeps its size, an
\* image with w > T has the size T x floor(h * T / w).
DownscaleOnly ==
    pc = "annotate" =>
        /\ img[1] = (IF wh[1] <= TargetWidth THEN wh[1] ELSE TargetWidth)
        /\ wh[1] <= TargetWidth => img = wh
        /\ wh[1] > TargetWidth =>
              img = <<TargetWidth, (wh[2] * TargetWidth) \div wh[1]>>

\* ------------------------------------------- vocabulary of SpecOverlay
\* annotate_frame has been called, by build_session_video or by
\* build_annotated_video
Annotated == pc \in {"annotated", "annotated_daily"}

\* The note of the session as the source gives it (<<>> without one)
RawNote == IF "note" \in DOMAIN activity THEN activity["note"] ELSE <<>>

\* The ways to show a note in at most MaxNoteLen characters: as it is, or
\* cut and ended by "..."
ShownNotes(note) ==
    IF Len(note) <= MaxNoteLen THEN {Str(note)}
    ELSE {Str(SubSeq(note, 1, k) \o <<".", ".", ".">>) : k \in 0..(MaxNoteLen - 3)}

\* The applications among which the primary one is chosen: those on
\* screen, or all when none is
Candidates(apps) ==
    LET onScreen == {i \in 1..Len(apps) : FromScreen(apps[i])}
    IN IF onScreen # {} THEN onScreen ELSE 1..Len(apps)

\* C25 (overlay text), as claimed: the text drawn on a frame is, in order,
\* the line "<display name> | <local time of capture>", the line
\* "Activity: <level, or 0>% | App: <primary application, or unknown>",
\* which is always there, and - only when the session has a note - the line
\* "Note: <note>", a note longer than the maximum length cut and ended by
\* "..." so that what is shown is no longer than the maximum.
OverlayText ==
    Annotated =>
        /\ Len(text) \in {2, 3}
        /\ "taken" \in DOMAIN shot =>
              text[1] \in {Names[1] \o " | " \o PktDateTime(shot["taken"]),
                           Names[1] \o " | " \o format_pkt_timestamp_24(shot["taken"])}
        /\ text[2] = "Activity: "
                      \o ToString(IF "activityLevel" \in DOMAIN shot
                                  THEN shot["activityLevel"] ELSE 0)
                      \o "% | App: "
                      \o (IF main_app = "" THEN "unknown" ELSE main_app)
        /\ Len(text) = 3 <=> RawNote # <<>>
        /\ RawNote # <<>> =>
              text[3] \in {"Note: " \o n : n \in ShownNotes(RawNote)}

\* C26 (primary application), as claimed: the application shown for a
\* screenshot with applications is one that is on screen if any is, and has
\* the longest duration among the candidates.
PrimaryApplication ==
    (Annotated /\ AppsOf(shot) # <<>>) =>
        \E i \in Candidates(AppsOf(shot)) :
            /\ AppsOf(shot)[i]["applicationName"] = main_app
            /\ \A j \in Candidates(AppsOf(shot)) :
                 DurationKey(AppsOf(shot)[j]) <= DurationKey(AppsOf(shot)[i])

\* C27 (video caption content): the caption sent with send_video names the
\* subject and the note, shows as start the local time of the session's
\* start time and as end the local time of the moment the End was detected
\* (utc_now_ts() in the End branch, not the end time of the source), the
\* active duration computed from end time - start time, the number of
\* frames, and the average activity level exactly when there is one.
VideoCaptionContent ==
    \A i \in 1..Len(calls) :
        calls[i].fn = "send_video" =>
            LET m == calls[i].msg
                info == video_info[1]
                d == activity["to"] - activity["from"]
            IN /\ m["name"] = SessName
               /\ m["note"] = NoteOf(activity)
               /\ m["start"] = format_pkt_time(activity["from"])
               /\ m["end"] = format_pkt_time(detected_end_ts)
               /\ m["dur"] = format_duration(IF d > 0 THEN d ELSE 0)
               /\ m["frame_count"] = info.frame_count
               /\ "avg" \in DOMAIN m <=> info.avg_level # <<>>
               /\ "avg" \in DOMAIN m => m["avg"] = info.avg_level[1]

\* Witness C27: a video was sent whose caption ends at a minute that is
\* neither the one of the source's end time nor the one of the send
VideoCaptionContentWitness ==
    \E i \in 1..Len(calls) :
        /\ calls[i].fn = "send_video"
        /\ calls[i].msg["end"] = format_pkt_time(detected_end_ts)
        /\ calls[i].msg["end"] # format_pkt_time(activity["to"])
        /\ calls[i].msg["end"] # format_pkt_time(now)
        /\ calls[i].msg["start"] # calls[i].msg["end"]
        /\ "avg" \notin DOMAIN calls[i].msg

\* The dispatcher call i of this run is an End notification: the video
\* message or one of the two fallback texts
IsEndCall(i) ==
    \/ calls[i].fn = "send_video"
    \/ calls[i].fn = "send_text" /\ calls[i].ev = "end"

\* The dispatcher call j of this run is the Start notification
IsStartCall(j) == calls[j].fn = "send_text" /\ calls[j].ev = "start"

\* C29 (Start precedes End): an End notification dispatched at a sighting
\* with a start time comes after the session's Start notification - earlier
\* in the same run, or in an earlier run whose notified_start was loaded by
\* this one - and the End is dispatched only with notified_start true.
StartPrecedesEnd ==
    Truthy(activity, "from") =>
        /\ \A i \in 1..Len(calls) :
              IsEndCall(i) =>
                  \/ \E j \in 1..(i - 1) : IsStartCall(j)
                  \/ /\ PersistedFlag(docAtLoad, obs, "notified_start")
                     /\ runs > 1 /\ startSent >= 1
        /\ pc = "send" => MemFlag(state, obs, "notified_start")

\* Witness C29: the second run dispatched the End of a session whose Start
\* an earlier run had dispatched and saved
StartPrecedesEndWitness ==
    /\ runs = 2
    /\ Truthy(activity, "from")
    /\ PersistedFlag(docAtLoad, obs, "notified_start")
    /\ \E i \in 1..Len(calls) : IsEndCall(i)
    /\ \A j \in 1..Len(calls) : ~IsStartCall(j)

\* The (subject, activityId) pairs that have an entry in a state
Entries(st) ==
    IF "sessions" \notin DOMAIN st THEN {}
    ELSE UNION {{<<e, id>> : id \in DOMAIN st["sessions"][e]}
                : e \in DOMAIN st["sessions"]}

\* The entries of the state file as load_state reads it
SavedEntries(file) == Entries(load_state(file).val)

\* A step of run_once adds to the state in memory at most the entry of the
\* activity it has just been given, and that only if it has an activityId;
\* save_state writes no entry that is not in memory
SightingStep ==
    /\ Entries(state') \subseteq
          (IF pc = "idle" THEN SavedEntries(doc) ELSE Entries(state))
          \cup (IF pc = "idle" /\ TruthyStr(activity', "activityId")
                THEN {<<obs[1], activity'["activityId"]>>} ELSE {})
    /\ SavedEntries(doc') \subseteq SavedEntries(doc) \cup Entries(state)

\* An activity without activityId, or with an empty one, leaves the entries
\* as they were loaded and makes no dispatcher or source call
NoIdNoEffect ==
    (runs >= 1 /\ ~TruthyStr(activity, "activityId")) =>
        /\ calls = <<>>
        /\ pc \in {"rest", "idle"}
        /\ pc = "rest" => Entries(state) = SavedEntries(docAtLoad)
        /\ SavedEntries(doc) = SavedEntries(docAtLoad)

\* The entries that were loaded are in memory while the run lasts and on
\* disk whatever the run does
LoadedEntriesKept ==
    /\ SavedEntries(docAtLoad) \subseteq SavedEntries(doc)
    /\ pc # "idle" => SavedEntries(docAtLoad) \subseteq Entries(state)

TimelapseNumbering ==
    pc \in {"images", "video", "no_video", "raised"} =>
        \A j \in 1..Len(image_paths) : image_paths[j] = ImgName(j)

\* The lines of a kind in the summary returned
LinesOf(kind) == SelectSeq(lines, LAMBDA l : l.kind = kind)

\* The activities of the day that have both a start and an end
CompleteSessions ==
    SelectSeq(day_activities, LAMBDA x : "from" \in DOMAIN x /\ "to" \in DOMAIN x)

\* C32 (daily summary session accounting), as claimed: the line
\* "... plus N more session(s)" is there only when more than 40 sessions
\* with both start and end exist, N is the number of such sessions that were
\* not listed, and the number of sessions on the Overall line is the sum of
\* the numbers of sessions of the notes.
SummaryAccounting ==
    (pc = "returned" /\ day_activities # <<>>) =>
        /\ LinesOf("more") # <<>> =>
              /\ Len(CompleteSessions) > MAX_SESSION_LINES
              /\ LinesOf("more")[1].remaining =
                    Len(CompleteSessions) - Len(LinesOf("session"))
        /\ LinesOf("overall") # <<>> =>
              LinesOf("overall")[1].count =
                  Sum([j \in 1..Len(LinesOf("note")) |-> LinesOf("note")[j].count])
====
